---- MODULE Spec2Model ----
(***************************************************************************)
(* Verification model of the theme-centralisation workflow:                *)
(*   - code_run_build_with_fix  (workflow/service/code_run_agent.py)       *)
(*   - code_act_agent           (workflow/service/code_act_agent.py)       *)
(*   - MainWorkflow.main        (workflow/service/main.py)                 *)
(* Each operation has its own specification (BuildSpec, ActSpec,           *)
(* MainSpec); the variables of the operations a specification does not run *)
(* stay at their initial values.                                           *)
(*                                                                         *)
(* The LLM service, the shell commands and the file system are the         *)
(* environment: every response, exit status and I/O failure the code can   *)
(* observe is a nondeterministic choice.                                   *)
(***************************************************************************)
EXTENDS Integers, Sequences, FiniteSets, TLC

(***************************************************************************)
(* Bounds of the model (not program constants).                            *)
(***************************************************************************)
\* longest error-file list the extraction LLM returns
MaxErrorFiles == 2
\* largest number of frontend files _scan_frontend_files returns
MaxFiles == 3

\* Largest number of files submitted to the worker pool.
MaxPoolFiles == 12

\* Largest number of elements of an error_files array.
MaxItems == 2

\* Largest max_results argument of a paginated Twitter method.
MaxResults == 3

\* Largest number of items on one page of a Twitter API response.
MaxPageItems == 2

(***************************************************************************)
(* State                                                                   *)
(***************************************************************************)
\* code_run_build_with_fix
VARIABLES
    build_pc,           \* position in code_run_build_with_fix
    frontend_analysis,  \* the frontend_analysis argument (attribute -> value)
    dir_exists,         \* Path(directory_path).exists()
    iteration,          \* local variable iteration
    error_files,        \* local variable error_files of the current iteration
    fix_idx,            \* index of the for loop over error_files
    files,              \* content of the files the loop can name, by path
    build_outcome,      \* how the operation ended
    raised_max,         \* max_iterations carried by BuildMaxIterationsError
    build_runs,         \* number of _run_command(build_command) calls
    eslint_runs,        \* number of _run_command(eslint_fix_command) calls
    last_extract,       \* result of the latest _extract_error_files call
    fixed_in_iter,      \* number of _fix_error_file calls in this iteration
    fix_llm_calls,      \* LLM calls made by _fix_error_file in this iteration
    last_fix,           \* how the latest _fix_error_file call of this iteration ended
    modified_since_build \* the loop changed a file after the latest build ran

bvars == <<build_pc, frontend_analysis, dir_exists, iteration, error_files,
           fix_idx, files, build_outcome, raised_max, build_runs,
           eslint_runs, last_extract, fixed_in_iter, fix_llm_calls, last_fix,
                   modified_since_build>>

\* code_act_agent
VARIABLES
    act_pc,             \* position in code_act_agent
    frontend_files,     \* relative paths returned by _scan_frontend_files
    task,               \* state of the future submitted for each file
    result_path,        \* file_path of each task's result
    yielded,            \* futures as_completed has handed to the loop
    extraction_results, \* list extraction_results (records of the results)
    errors,             \* list errors (the rel_path each message names)
    write_idx,          \* index of the write loop over extraction_results
    disk_writes,        \* every _write_file_content call that wrote, in order
    merge_calls,        \* number of _generate_final_main_css calls
    css_reads,          \* number of reads of the main stylesheet
    act_outcome,        \* how the operation ended
    act_error_names     \* files named by the message of the raised exception

avars == <<act_pc, frontend_files, task, result_path, yielded,
           extraction_results, errors, write_idx, disk_writes, merge_calls,
           css_reads, act_outcome, act_error_names>>

\* MainWorkflow.main
VARIABLES
    main_pc,            \* "stage", "handler" (except clauses of main), "epilogue",
                        \* "raised" or "completed"
    next_stage,         \* number of the stage main calls next
    github_repo_url,    \* the argument of main
    started,            \* stages entered so far, in order
    completed,          \* stages that returned
    failed_stage,       \* the stage that raised (0: none)
    component_error,    \* error kind raised by the component the stage called
    stage_error,        \* error kind raised by the stage method
    escaped,            \* error kind that escaped main
    manifest,           \* the cloned repository holds a package.json
    analysis_result,    \* the object returned by code_analyze_agent
    disk,               \* artefacts the stages leave on disk
    commands,           \* shell commands run by stages 7 to 12
    install_run         \* what running "npm install" in stage 7 came to

mvars == <<main_pc, next_stage, github_repo_url, started, completed,
           failed_stage, component_error, stage_error, escaped, manifest,
           analysis_result, disk, commands, install_run>>

\* The further operations keep their state in one record each.
VARIABLES
    cli,                \* the standalone entry point of main.py
    gen,                \* css_generator_agent
    srv,                \* stage 12, _start_development_server
    app,                \* css_apply_agent, then css_theme_summary_generator
    ana,                \* two calls of code_analyze_agent
    cmd,                \* two calls of _run_command
    pool,               \* the worker pool of code_act_agent
    xtr,                \* one call of _extract_error_files
    css,                \* css_analyze_agent and the uses of main_css_path
    tw                  \* a paginated method of TwitterService

ovars == <<cli, gen, srv, app, ana, cmd, pool, xtr, css, tw>>

\* The record of an operation that is not running.
Idle == [pc |-> "idle"]

\* The operations other than `own` are not running.
RestIdle(own) ==
    /\ IF own = "cli" THEN TRUE ELSE cli = Idle
    /\ IF own = "gen" THEN TRUE ELSE gen = Idle
    /\ IF own = "srv" THEN TRUE ELSE srv = Idle
    /\ IF own = "app" THEN TRUE ELSE app = Idle
    /\ IF own = "ana" THEN TRUE ELSE ana = Idle
    /\ IF own = "cmd" THEN TRUE ELSE cmd = Idle
    /\ IF own = "pool" THEN TRUE ELSE pool = Idle
    /\ IF own = "xtr" THEN TRUE ELSE xtr = Idle
    /\ IF own = "css" THEN TRUE ELSE css = Idle
    /\ IF own = "tw" THEN TRUE ELSE tw = Idle

\* A step of operation `own` leaves the records of the others alone.
RestUnchanged(own) ==
    /\ IF own = "cli" THEN TRUE ELSE UNCHANGED cli
    /\ IF own = "gen" THEN TRUE ELSE UNCHANGED gen
    /\ IF own = "srv" THEN TRUE ELSE UNCHANGED srv
    /\ IF own = "app" THEN TRUE ELSE UNCHANGED app
    /\ IF own = "ana" THEN TRUE ELSE UNCHANGED ana
    /\ IF own = "cmd" THEN TRUE ELSE UNCHANGED cmd
    /\ IF own = "pool" THEN TRUE ELSE UNCHANGED pool
    /\ IF own = "xtr" THEN TRUE ELSE UNCHANGED xtr
    /\ IF own = "css" THEN TRUE ELSE UNCHANGED css
    /\ IF own = "tw" THEN TRUE ELSE UNCHANGED tw

\* Steps of one operation leave the variables of the others alone.
OthersIdleInBuild == UNCHANGED <<avars, mvars, ovars>>

OthersIdleInAct == UNCHANGED <<bvars, mvars, ovars>>

OthersIdleInMain == UNCHANGED <<bvars, avars, ovars>>

(***************************************************************************)
(* Build-repair loop: code_run_build_with_fix                              *)
(***************************************************************************)
\* max_iterations = 20
max_iterations == 20

\* Fields declared by the pydantic model FrontendProjectAnalysis.
FrontendProjectAnalysisFields ==
    {"is_frontend_project", "start_command", "build_command", "ui_frameworks_info"}

\* getattr on an object: absent attributes raise AttributeError.
HasAttr(obj, name) == name \in DOMAIN obj

\* Python truthiness of a str: the empty string is falsy.
Truthy(s) == s /= ""

\* A path the extraction LLM can name that leads out of the project root:
\* line 275 joins it to directory_path without any containment test.
EscapingPaths == {"../shared/util.ts"}

\* Paths the extraction LLM can name, relative to the project root.
\* "gone.tsx" does not exist on disk.
ErrorPaths == {"a.tsx", "b.tsx", "gone.tsx"} \cup EscapingPaths

InitialFiles == [p \in ErrorPaths |-> IF p = "gone.tsx" THEN "absent" ELSE "orig"]

\* full_file_path.exists()
FileExists(fs, p) == fs[p] /= "absent"

\* Sequences over S of length at most n.
SeqsUpTo(S, n) == UNION {[1..k -> S] : k \in 0..n}

\* Values of the eslint_fix_command attribute read at code_run_agent.py:476
\* and main.py:137.  The FrontendProjectAnalysis class of
\* code_analyze_agent.py declares no such field; the ProjectAnalysis record of
\* the specification has it.
EslintFixCommands == {"", "npm run lint"}

\* Objects passed as frontend_analysis: an instance of FrontendProjectAnalysis
\* as declared (no eslint_fix_command attribute), and objects that also carry
\* the eslint_fix_command attribute the function reads.
AnalysisObjects ==
    LET base(b) == [is_frontend_project |-> TRUE, start_command |-> "npm start",
                    build_command |-> b, ui_frameworks_info |-> "react"]
        ext(b, e) == [is_frontend_project |-> TRUE, start_command |-> "npm start",
                      build_command |-> b, ui_frameworks_info |-> "react",
                      eslint_fix_command |-> e]
    IN  {base(b) : b \in {"", "npm run build"}}
        \cup {ext(b, e) : b \in {"", "npm run build"}, e \in EslintFixCommands}

\* A call of code_run_build_with_fix with its arguments chosen.
BuildStart ==
    /\ build_pc = "start"
    /\ frontend_analysis \in AnalysisObjects
    /\ dir_exists \in BOOLEAN
    /\ iteration = 0
    /\ error_files = <<>>
    /\ fix_idx = 0
    /\ files = InitialFiles
    /\ build_outcome = "none"
    /\ raised_max = 0
    /\ build_runs = 0
    /\ eslint_runs = 0
    /\ last_extract = "none"
    /\ fixed_in_iter = 0
    /\ fix_llm_calls = 0
    /\ last_fix = "none"
    /\ modified_since_build = FALSE

\* The operation ends by raising `kind` (or returning when kind = "return").
BuildEnd(kind) ==
    /\ build_pc' = "done"
    /\ build_outcome' = kind

\* Lines 459-472: the directory and build_command checks before the try block.
BuildPrecheck ==
    /\ OthersIdleInBuild
    /\ build_pc = "start"
    /\ IF ~dir_exists \/ ~Truthy(frontend_analysis.build_command)
         THEN BuildEnd("Exception")
         ELSE build_pc' = "eslint" /\ UNCHANGED build_outcome
    /\ UNCHANGED <<frontend_analysis, dir_exists, iteration, error_files, fix_idx,
                   files, raised_max, build_runs, eslint_runs, last_extract,
                   fixed_in_iter, fix_llm_calls, last_fix,
                   modified_since_build>>

\* Lines 474-490: the ESLint step.  Reading eslint_fix_command from an object
\* without that attribute raises AttributeError, which the handler of line 535
\* turns into Exception.  The command's exit status never ends the operation.
EslintStep ==
    /\ OthersIdleInBuild
    /\ build_pc = "eslint"
    /\ IF ~HasAttr(frontend_analysis, "eslint_fix_command")
         THEN /\ BuildEnd("Exception")
              /\ UNCHANGED eslint_runs
         ELSE /\ build_pc' = "while"
              /\ UNCHANGED build_outcome
              /\ IF Truthy(frontend_analysis.eslint_fix_command)
                   THEN \E success \in BOOLEAN : eslint_runs' = eslint_runs + 1
                   ELSE UNCHANGED eslint_runs
    /\ iteration' = 0
    /\ UNCHANGED <<frontend_analysis, dir_exists, error_files, fix_idx, files,
                   raised_max, build_runs, last_extract, fixed_in_iter, fix_llm_calls, last_fix,
                   modified_since_build>>

\* Line 492: while iteration < max_iterations
LoopCondition_OffByOne(i) == i <= max_iterations

LoopCondition(i) == i < max_iterations

\* Lines 500-508: a successful build returns at once; a failed one goes on to
\* the extraction of the error files.
AfterBuild_ExtractsAnyway(success) ==
    [pc |-> "extract", outcome |-> IF success THEN "return" ELSE "none"]

AfterBuild(success) ==
    IF success THEN [pc |-> "done", outcome |-> "return"]
               ELSE [pc |-> "extract", outcome |-> "none"]

\* Lines 492-508: one build attempt.
BuildAttempt ==
    /\ OthersIdleInBuild
    /\ build_pc = "while"
    /\ LoopCondition(iteration)
    /\ iteration' = iteration + 1
    /\ build_runs' = build_runs + 1
    /\ \E success \in BOOLEAN :
         /\ build_pc' = AfterBuild(success).pc
         /\ build_outcome' = AfterBuild(success).outcome
    /\ error_files' = <<>>
    /\ fix_idx' = 0
    /\ last_extract' = "none"
    /\ fixed_in_iter' = 0
    /\ fix_llm_calls' = 0
    /\ last_fix' = "none"
    /\ modified_since_build' = FALSE
    /\ UNCHANGED <<frontend_analysis, dir_exists, files, raised_max, eslint_runs>>

\* Lines 529-534: the loop condition is false.
Exhausted ==
    /\ OthersIdleInBuild
    /\ build_pc = "while"
    /\ ~LoopCondition(iteration)
    /\ BuildEnd("BuildMaxIterationsError")
    /\ raised_max' = max_iterations
    /\ UNCHANGED <<frontend_analysis, dir_exists, iteration, error_files, fix_idx,
                   files, build_runs, eslint_runs, last_extract, fixed_in_iter, fix_llm_calls, last_fix,
                   modified_since_build>>

\* Lines 514-516: an empty error_files list takes `continue`: back to the loop
\* condition, the operation not ended.
OnEmptyList_ReturnsSuccess == [pc |-> "done", outcome |-> "return"]

OnEmptyList == [pc |-> "while", outcome |-> "none"]

\* Lines 525-527: an exception of _extract_error_files is caught inside the
\* loop; `continue` goes back to the loop condition, the operation not ended.
OnExtractionFailure_Escapes == [pc |-> "done", outcome |-> "Exception"]

OnExtractionFailure == [pc |-> "while", outcome |-> "none"]

\* Lines 510-516 and 525-527 with _extract_error_files (145-258): the LLM call
\* fails, answers with empty content, invalid JSON or a schema violation (all
\* raise), or answers with a list of paths.
ExtractErrorFiles ==
    /\ OthersIdleInBuild
    /\ build_pc = "extract"
    /\ \/ /\ last_extract' = "raised"
          /\ build_pc' = OnExtractionFailure.pc
          /\ build_outcome' = OnExtractionFailure.outcome
          /\ UNCHANGED <<error_files, fix_idx>>
       \/ \E l \in SeqsUpTo(ErrorPaths, MaxErrorFiles) :
            /\ error_files' = l
            /\ IF l = <<>>
                 THEN /\ last_extract' = "empty"
                      /\ build_pc' = OnEmptyList.pc
                      /\ build_outcome' = OnEmptyList.outcome
                      /\ UNCHANGED fix_idx
                 ELSE /\ last_extract' = "list"
                      /\ build_pc' = "fix"
                      /\ fix_idx' = 1
                      /\ UNCHANGED build_outcome
    /\ UNCHANGED <<frontend_analysis, dir_exists, iteration, files,
                   raised_max, build_runs, eslint_runs, fixed_in_iter, fix_llm_calls, last_fix,
                   modified_since_build>>

\* How a call of _fix_error_file (261-389) can end.  A path that does not
\* exist returns at line 280.  Otherwise reading the file may raise (283-285),
\* the LLM call may raise or answer with empty, unparsable or schema-violating
\* content (287-379), opening or writing the file may raise (382-383), or the
\* file is overwritten with the returned content.
FixOutcomes_MissingRaises(exists) ==
    IF exists THEN {"read_failed", "llm_failed", "write_failed", "written"}
              ELSE {"read_failed"}

FixOutcomes(exists) ==
    IF exists THEN {"read_failed", "llm_failed", "write_failed", "written"}
              ELSE {"skipped"}

\* Lines 525-527: an exception of _fix_error_file leaves the for loop; the
\* `continue` of line 527 goes back to the loop condition.
FixFailurePc_NextFile(idx, n) == IF idx = n THEN "while" ELSE "fix"

FixFailurePc(idx, n) == "while"

\* Lines 382-383: open(..., 'w') truncates the file before write() runs, so a
\* failing write leaves the old content (open raised) or a truncated file.
ContentAfterFailedWrite(old) == {old, "truncated"}

\* Lines 519-527 with _fix_error_file (261-389): one pass of the for loop.
FixErrorFile ==
    /\ OthersIdleInBuild
    /\ build_pc = "fix"
    /\ LET p == error_files[fix_idx]
           n == Len(error_files)
           next_pc == IF fix_idx = n THEN "while" ELSE "fix"
       IN  /\ fixed_in_iter' = fixed_in_iter + 1
           /\ \E o \in FixOutcomes(FileExists(files, p)) :
                /\ last_fix' = o
                /\ fix_llm_calls' =
                     IF o \in {"llm_failed", "write_failed", "written"}
                       THEN fix_llm_calls + 1 ELSE fix_llm_calls
                /\ build_pc' = IF o \in {"skipped", "written"}
                                 THEN next_pc ELSE FixFailurePc(fix_idx, n)
                /\ fix_idx' = IF o \in {"skipped", "written"}
                                THEN fix_idx + 1 ELSE fix_idx
                /\ CASE o = "written" -> files' = [files EXCEPT ![p] = "fixed"]
                     [] o = "write_failed" ->
                          \E c \in ContentAfterFailedWrite(files[p]) :
                              files' = [files EXCEPT ![p] = c]
                     [] OTHER -> UNCHANGED files
    /\ modified_since_build' = (modified_since_build \/ files' /= files)
    /\ UNCHANGED <<frontend_analysis, dir_exists, iteration, error_files,
                   build_outcome, raised_max, build_runs, eslint_runs, last_extract>>

BuildNext ==
    \/ BuildPrecheck
    \/ EslintStep
    \/ BuildAttempt
    \/ Exhausted
    \/ ExtractErrorFiles
    \/ FixErrorFile

\* code_run_build_with_fix is not running.
BuildIdle ==
    /\ build_pc = "idle"
    /\ frontend_analysis = [build_command |-> ""]
    /\ dir_exists = FALSE
    /\ iteration = 0
    /\ error_files = <<>>
    /\ fix_idx = 0
    /\ files = InitialFiles
    /\ build_outcome = "none"
    /\ raised_max = 0
    /\ build_runs = 0
    /\ eslint_runs = 0
    /\ last_extract = "none"
    /\ fixed_in_iter = 0
    /\ fix_llm_calls = 0
    /\ last_fix = "none"
    /\ modified_since_build = FALSE

(***************************************************************************)
(* Concurrent theme extraction: code_act_agent                             *)
(***************************************************************************)
\* ThreadPoolExecutor(max_workers=10)
max_workers == 10

\* Relative paths of the frontend files a project can hold, in scan order.
FrontendFileNames == <<"f1.tsx", "f2.jsx", "f3.html", "f4.tsx", "f5.jsx">>

\* css_analysis_result.main_css_path
MainCssPath == "main.css"

\* A path for which no file was submitted.
OutsidePath == "../outside.tsx"

Range(s) == {s[i] : i \in DOMAIN s}

\* Lines 297-301: the result keeps the file_path of the LLM response; only a
\* missing or empty file_path is replaced by the submitted path.
ResultFilePath(submitted, answered) ==
    IF answered = "" THEN submitted ELSE answered

\* file_path values the LLM can answer for a task ("" is a missing or empty
\* field): the submitted path, the first submitted path, the main stylesheet
\* and a path that was not submitted.
AnsweredPaths(p, submitted) == {"", p, submitted[1], MainCssPath, OutsidePath}

\* code_act_agent is not running.
ActIdle ==
    /\ act_pc = "idle"
    /\ frontend_files = <<>>
    /\ task = <<>>
    /\ result_path = <<>>
    /\ yielded = {}
    /\ extraction_results = <<>>
    /\ errors = <<>>
    /\ write_idx = 0
    /\ disk_writes = <<>>
    /\ merge_calls = 0
    /\ css_reads = 0
    /\ act_outcome = "none"
    /\ act_error_names = {}

\* A call of code_act_agent.
ActStart ==
    /\ act_pc = "start"
    /\ frontend_files = <<>>
    /\ task = <<>>
    /\ result_path = <<>>
    /\ yielded = {}
    /\ extraction_results = <<>>
    /\ errors = <<>>
    /\ write_idx = 0
    /\ disk_writes = <<>>
    /\ merge_calls = 0
    /\ css_reads = 0
    /\ act_outcome = "none"
    /\ act_error_names = {}

\* The operation ends: it returns, or raises `kind` with a message naming
\* the files `names`.
ActEnd(kind, names) ==
    /\ act_pc' = "done"
    /\ act_outcome' = kind
    /\ act_error_names' = names

\* Lines 478-525: the argument checks, the scan, the one read of the main
\* stylesheet and the submission of one task per scanned file.
ActBegin ==
    /\ OthersIdleInAct
    /\ act_pc = "start"
    /\ \E is_frontend_project \in BOOLEAN, exists \in BOOLEAN,
          readable \in BOOLEAN, n \in 0..MaxFiles :
         IF ~is_frontend_project \/ ~exists
           THEN /\ ActEnd("Exception", {})
                /\ UNCHANGED <<frontend_files, task, result_path, css_reads>>
           ELSE IF n = 0
             THEN /\ ActEnd("CodeActFileNotFoundError", {})
                  /\ UNCHANGED <<frontend_files, task, result_path, css_reads>>
             ELSE IF ~readable
               THEN /\ ActEnd("Exception", {})
                    /\ css_reads' = css_reads + 1
                    /\ UNCHANGED <<frontend_files, task, result_path>>
               ELSE /\ frontend_files' = SubSeq(FrontendFileNames, 1, n)
                    /\ css_reads' = css_reads + 1
                    /\ task' = [p \in Range(SubSeq(FrontendFileNames, 1, n)) |-> "queued"]
                    /\ result_path' = [p \in Range(SubSeq(FrontendFileNames, 1, n)) |-> ""]
                    /\ act_pc' = "pool"
                    /\ UNCHANGED <<act_outcome, act_error_names>>
    /\ UNCHANGED <<yielded, extraction_results, errors, write_idx, disk_writes,
                   merge_calls>>

Running == {p \in DOMAIN task : task[p] = "running"}

\* Line 514: the executor starts a queued task only while fewer than
\* max_workers worker threads are busy.
WorkerFree_Unbounded(running) == Cardinality(running) >= 0

WorkerFree(running) == Cardinality(running) < max_workers

\* A worker of the pool takes the oldest queued task; at most max_workers
\* tasks run at a time.
TaskStart(p) ==
    /\ OthersIdleInAct
    /\ act_pc = "pool"
    /\ task[p] = "queued"
    /\ WorkerFree(Running)
    /\ \A i, j \in DOMAIN frontend_files :
         (frontend_files[j] = p /\ i < j) => task[frontend_files[i]] /= "queued"
    /\ task' = [task EXCEPT ![p] = "running"]
    /\ UNCHANGED <<act_pc, frontend_files, result_path, yielded, extraction_results,
                   errors, write_idx, disk_writes, merge_calls, css_reads,
                   act_outcome, act_error_names>>

\* _process_single_file (165-307) ends: it raises, or returns a result whose
\* file_path is the one of the LLM response.
TaskFinish(p) ==
    /\ OthersIdleInAct
    /\ act_pc = "pool"
    /\ task[p] = "running"
    /\ \/ /\ task' = [task EXCEPT ![p] = "failed"]
          /\ UNCHANGED result_path
       \/ \E answered \in AnsweredPaths(p, frontend_files) :
            /\ task' = [task EXCEPT ![p] = "ok"]
            /\ result_path' = [result_path EXCEPT ![p] = ResultFilePath(p, answered)]
    /\ UNCHANGED <<act_pc, frontend_files, yielded, extraction_results, errors,
                   write_idx, disk_writes, merge_calls, css_reads, act_outcome,
                   act_error_names>>

\* Lines 527-536: as_completed yields a finished future; its result is
\* appended to extraction_results, its exception to errors.
Collect(p) ==
    /\ OthersIdleInAct
    /\ act_pc = "pool"
    /\ task[p] \in {"ok", "failed"}
    /\ p \notin yielded
    /\ yielded' = yielded \cup {p}
    /\ IF task[p] = "ok"
         THEN /\ extraction_results' =
                   Append(extraction_results, [src |-> p, file_path |-> result_path[p]])
              /\ UNCHANGED errors
         ELSE /\ errors' = Append(errors, p)
              /\ UNCHANGED extraction_results
    /\ UNCHANGED <<act_pc, frontend_files, task, result_path, write_idx, disk_writes,
                   merge_calls, css_reads, act_outcome, act_error_names>>

\* Line 540: "; ".join(errors) names the file of every collected error.
JoinedErrors_FirstOnly(errs) == {errs[1]}

JoinedErrors(errs) == Range(errs)

\* Lines 527-536: the for loop over as_completed ends when every submitted
\* future has been yielded, and leaving the with block waits for the pool.
AllYielded_AfterFirst(y, t) == y /= {}

AllYielded(y, t) == y = DOMAIN t

\* Lines 537-542: the with block is left once every future was yielded and the
\* pool has shut down; any collected error raises.
ActJoin ==
    /\ OthersIdleInAct
    /\ act_pc = "pool"
    /\ AllYielded(yielded, task)
    /\ IF errors /= <<>>
         THEN /\ ActEnd("Exception", JoinedErrors(errors))
              /\ UNCHANGED write_idx
         ELSE /\ act_pc' = "write"
              /\ write_idx' = 1
              /\ UNCHANGED <<act_outcome, act_error_names>>
    /\ UNCHANGED <<frontend_files, task, result_path, yielded, extraction_results,
                   errors, disk_writes, merge_calls, css_reads>>

\* Lines 543-545: one pass of the write loop; _write_file_content writes to
\* dir_path / result.file_path, or raises.
ActWriteFile ==
    /\ OthersIdleInAct
    /\ act_pc = "write"
    /\ write_idx <= Len(extraction_results)
    /\ \/ /\ disk_writes' = Append(disk_writes,
                 [path |-> extraction_results[write_idx].file_path, by |-> "file"])
          /\ write_idx' = write_idx + 1
          /\ UNCHANGED <<act_pc, act_outcome, act_error_names>>
       \/ /\ ActEnd("Exception", {})
          /\ UNCHANGED <<disk_writes, write_idx>>
    /\ UNCHANGED <<frontend_files, task, result_path, yielded, extraction_results,
                   errors, merge_calls, css_reads>>

\* Lines 547-559: the instructions are aggregated and the merge LLM call made.
ActMerge ==
    /\ OthersIdleInAct
    /\ act_pc = "write"
    /\ write_idx > Len(extraction_results)
    /\ merge_calls' = merge_calls + 1
    /\ \/ /\ act_pc' = "write_css"
          /\ UNCHANGED <<act_outcome, act_error_names>>
       \/ ActEnd("Exception", {})
    /\ UNCHANGED <<frontend_files, task, result_path, yielded, extraction_results,
                   errors, write_idx, disk_writes, css_reads>>

\* Lines 561-573: the merged content is written over the main stylesheet.
ActWriteCss ==
    /\ OthersIdleInAct
    /\ act_pc = "write_css"
    /\ \/ /\ disk_writes' = Append(disk_writes, [path |-> MainCssPath, by |-> "merge"])
          /\ ActEnd("return", {})
       \/ /\ ActEnd("Exception", {})
          /\ UNCHANGED disk_writes
    /\ UNCHANGED <<frontend_files, task, result_path, yielded, extraction_results,
                   errors, write_idx, merge_calls, css_reads>>

ActNext ==
    \/ ActBegin
    \/ \E p \in DOMAIN task : TaskStart(p)
    \/ \E p \in DOMAIN task : TaskFinish(p)
    \/ \E p \in DOMAIN task : Collect(p)
    \/ ActJoin
    \/ ActWriteFile
    \/ ActMerge
    \/ ActWriteCss

(***************************************************************************)
(* Command runner: _run_command                                            *)
(***************************************************************************)
\* stderr written by _run_command when subprocess.run raises TimeoutExpired.
TimeoutMessage == "Command timed out after 5 minutes"

\* stderr of the shell when the executable of the command line is not found;
\* the shell then exits with status 127.
NotFoundMessage == "sh: 1: npm: not found"

ExitCodes == {0, 1, 127}

\* What subprocess.run(command, shell=True, cwd=..., timeout=300) comes to:
\* the shell exits with a return code and captured output, the timeout
\* expires, or starting the shell raises (cwd missing).  `cause` tells why;
\* an executable that the shell cannot find is an exit with status 127.
ProcessOutcomes ==
    {[kind |-> "exit", cause |-> "ran", code |-> c, stdout |-> o, stderr |-> e] :
        c \in ExitCodes, o \in {"", "out"},
        e \in {"", "err", NotFoundMessage, TimeoutMessage}}
    \cup {[kind |-> "exit", cause |-> "not_found", code |-> 127, stdout |-> "",
           stderr |-> NotFoundMessage]}
    \cup {[kind |-> "TimeoutExpired", cause |-> "timeout", code |-> 0, stdout |-> "",
           stderr |-> ""]}
    \cup {[kind |-> "Exception", cause |-> "cwd_missing", code |-> 0, stdout |-> "",
           stderr |-> "No such file or directory"]}

\* _run_command (127-142): the tuple (success, stdout, stderr) it returns.
RunCommand(o) ==
    IF o.kind = "exit" THEN <<o.code = 0, o.stdout, o.stderr>>
    ELSE IF o.kind = "TimeoutExpired" THEN <<FALSE, "", TimeoutMessage>>
    ELSE <<FALSE, "", o.stderr>>

\* No command was run.
NoRun == [kind |-> "none"]

(***************************************************************************)
(* Stage pipeline: MainWorkflow.main                                       *)
(***************************************************************************)
\* Number of stage calls in main (lines 559-572).
NumStages == 12

\* Values passed as github_repo_url: strings and values of other types.
UrlInputs == {"empty_str", "none", "int_0", "int_5", "not_github", "github"}

\* isinstance(github_repo_url, str)
UrlIsStr(u) == u \in {"empty_str", "not_github", "github"}

\* Python truthiness of the value.
UrlTruthy(u) == u \in {"int_5", "not_github", "github"}

\* extract_repo_name_from_url: the GitHub HTTPS pattern matches.
UrlMatchesGithub(u) == u = "github"

\* Line 65: not github_repo_url or not isinstance(github_repo_url, str)
InputRejected_NoTypeCheck(u) == ~UrlTruthy(u)

InputRejected(u) == ~UrlTruthy(u) \/ ~UrlIsStr(u)

\* No analysis result yet.
NoAnalysis == [none |-> TRUE]

\* Objects code_analyze_agent can return: instances of FrontendProjectAnalysis
\* as declared, and instances that also carry the eslint_fix_command attribute
\* read by main.py:137 and code_run_agent.py:476.
AnalysisResults ==
    LET base(f, s, b) == [is_frontend_project |-> f, start_command |-> s,
                          build_command |-> b, ui_frameworks_info |-> "react"]
        ext(f, s, b, e) == [is_frontend_project |-> f, start_command |-> s,
                            build_command |-> b, ui_frameworks_info |-> "react",
                            eslint_fix_command |-> e]
    IN  {base(f, s, b) : f \in BOOLEAN, s \in {"", "npm start"},
                         b \in {"", "npm run build"}}
        \cup {ext(f, s, b, e) : f \in BOOLEAN, s \in {"", "npm start"},
                                b \in {"", "npm run build"},
                                e \in EslintFixCommands}

EmptyDisk ==
    [repo |-> "absent", design_dir |-> FALSE, themes_dir |-> FALSE,
     sources |-> "orig", main_css |-> "orig", deps |-> "none",
     fixes |-> FALSE, backup |-> FALSE, original_json |-> FALSE,
     variants |-> "none", dev_server |-> FALSE]

\* main is not running.
MainIdle ==
    /\ main_pc = "idle"
    /\ next_stage = 0
    /\ github_repo_url = "none"
    /\ started = <<>>
    /\ completed = {}
    /\ failed_stage = 0
    /\ component_error = "none"
    /\ stage_error = "none"
    /\ escaped = "none"
    /\ manifest = FALSE
    /\ analysis_result = NoAnalysis
    /\ disk = EmptyDisk
    /\ commands = {}
    /\ install_run = NoRun

\* A call of MainWorkflow.main.
MainStart ==
    /\ main_pc = "stage"
    /\ next_stage = 1
    /\ github_repo_url \in UrlInputs
    /\ started = <<>>
    /\ completed = {}
    /\ failed_stage = 0
    /\ component_error = "none"
    /\ stage_error = "none"
    /\ escaped = "none"
    /\ manifest = FALSE
    /\ analysis_result = NoAnalysis
    /\ disk = EmptyDisk
    /\ commands = {}
    /\ install_run = NoRun

\* Lines 559-572: the stage called after stage k.
NextStage_SkipsAnalysis(k) == IF k = 2 THEN 4 ELSE k + 1

NextStage(k) == k + 1

\* main is about to call stage k.
AtStage(k) ==
    /\ main_pc = "stage"
    /\ next_stage = k
    /\ started' = Append(started, k)
    /\ UNCHANGED <<github_repo_url, escaped>>

\* Stage k returns.
StageReturns(k) ==
    /\ completed' = completed \cup {k}
    /\ next_stage' = NextStage(k)
    /\ main_pc' = IF k = NumStages THEN "epilogue" ELSE "stage"
    /\ UNCHANGED <<failed_stage, component_error, stage_error>>

\* Stage k raises `kind`; `component` is the kind the called component raised
\* ("none" when the stage method itself raises).  Control passes to the
\* except clauses of main.
StageRaises(k, component, kind) ==
    /\ main_pc' = "handler"
    /\ failed_stage' = k
    /\ component_error' = component
    /\ stage_error' = kind
    /\ UNCHANGED <<completed, next_stage>>

\* Stage k re-raises what its component raised.
StageReraises(k, kind) == StageRaises(k, kind, kind)

\* Stage 1, _validate_input (54-69).
ValidateInput ==
    /\ OthersIdleInMain
    /\ AtStage(1)
    /\ IF InputRejected(github_repo_url)
         THEN StageRaises(1, "none", "ValueError")
         ELSE StageReturns(1)
    /\ UNCHANGED <<install_run, manifest, analysis_result, disk, commands>>

\* Stage 2, _clone_repository (71-97) with clone_github_repo: a URL that does
\* not match the GitHub pattern raises ValueError; a failed clone raises
\* GitCloneError and may leave a partial directory.
CloneRepository ==
    /\ OthersIdleInMain
    /\ AtStage(2)
    /\ IF ~UrlMatchesGithub(github_repo_url)
         THEN /\ StageReraises(2, "ValueError")
              /\ UNCHANGED <<disk, manifest>>
         ELSE \/ /\ StageReraises(2, "GitCloneError")
                 /\ \E r \in {"absent", "partial"} : disk' = [disk EXCEPT !.repo = r]
                 /\ UNCHANGED manifest
              \/ /\ StageReturns(2)
                 /\ disk' = [disk EXCEPT !.repo = "cloned"]
                 /\ manifest' \in BOOLEAN
    /\ UNCHANGED <<install_run, analysis_result, commands>>

\* Lines 117-119: PackageJsonNotFoundError is caught and a plain Exception
\* raised in its place.
AnalyzeErrorKind(component) ==
    IF component = "PackageJsonNotFoundError" THEN "Exception" ELSE component

\* Line 125: not analysis_result.is_frontend_project
NotFrontend_Unchecked(a) == FALSE

NotFrontend(a) == ~a.is_frontend_project

\* Stage 3, _analyze_project (99-145) with code_analyze_agent: without a
\* package.json the agent raises PackageJsonNotFoundError; otherwise the LLM
\* call raises Exception or returns an analysis.  A non-frontend analysis
\* raises Exception; the logging of lines 131-142 reads eslint_fix_command,
\* which raises AttributeError on an object without that attribute.
AnalyzeProject ==
    /\ OthersIdleInMain
    /\ AtStage(3)
    /\ IF ~manifest
         THEN /\ StageRaises(3, "PackageJsonNotFoundError",
                             AnalyzeErrorKind("PackageJsonNotFoundError"))
              /\ UNCHANGED analysis_result
         ELSE \/ /\ StageRaises(3, "Exception", AnalyzeErrorKind("Exception"))
                 /\ UNCHANGED analysis_result
              \/ \E a \in AnalysisResults :
                   /\ analysis_result' = a
                   /\ IF NotFrontend(a)
                        THEN StageRaises(3, "none", "Exception")
                        ELSE IF ~HasAttr(a, "eslint_fix_command")
                               THEN StageRaises(3, "none", "AttributeError")
                               ELSE StageReturns(3)
    /\ UNCHANGED <<install_run, manifest, disk, commands>>

\* Stage 4, _initialize_project (147-185) with code_init_agent: creates
\* .design and .design/themes; an OSError raises PermissionError after any
\* prefix of the directory creation.
InitializeProject ==
    /\ OthersIdleInMain
    /\ AtStage(4)
    /\ \/ /\ StageReraises(4, "DirectoryNotFoundError")
          /\ UNCHANGED disk
       \/ /\ StageReraises(4, "PermissionError")
          /\ \E d \in BOOLEAN, t \in BOOLEAN :
               /\ t => d
               /\ disk' = [disk EXCEPT !.design_dir = d, !.themes_dir = t]
       \/ /\ StageReturns(4)
          /\ disk' = [disk EXCEPT !.design_dir = TRUE, !.themes_dir = TRUE]
    /\ UNCHANGED <<install_run, manifest, analysis_result, commands>>

\* Lines 205-207: CssFileNotFoundError is caught and a plain Exception raised.
CssErrorKind(component) ==
    IF component = "CssFileNotFoundError" THEN "Exception" ELSE component

\* Stage 5, _analyze_css (187-215) with css_analyze_agent.
AnalyzeCss ==
    /\ OthersIdleInMain
    /\ AtStage(5)
    /\ \/ \E c \in {"CssFileNotFoundError", "Exception"} :
            StageRaises(5, c, CssErrorKind(c))
       \/ StageReturns(5)
    /\ UNCHANGED <<install_run, manifest, analysis_result, disk, commands>>

\* Lines 244-247: CodeActFileNotFoundError is caught and a plain Exception
\* raised.
CodeActErrorKind(component) ==
    IF component = "CodeActFileNotFoundError" THEN "Exception" ELSE component

\* Stage 6, _process_color_theme (217-257) with code_act_agent: the agent ends
\* before any write, after some or all source writes (the stylesheet not yet
\* written), or after all writes.
ProcessColorTheme ==
    /\ OthersIdleInMain
    /\ AtStage(6)
    /\ \/ /\ \E c \in {"CodeActFileNotFoundError", "Exception"} :
               StageRaises(6, c, CodeActErrorKind(c))
          /\ UNCHANGED disk
       \/ /\ StageReraises(6, "Exception")
          /\ \E s \in {"partial", "themed"} : disk' = [disk EXCEPT !.sources = s]
       \/ /\ StageReturns(6)
          /\ disk' = [disk EXCEPT !.sources = "themed", !.main_css = "themed"]
    /\ UNCHANGED <<install_run, manifest, analysis_result, commands>>

\* Outcomes of "npm install" run in the cloned directory, which exists.
InstallOutcomes == {o \in ProcessOutcomes : o.kind /= "Exception"}

\* code_run_npm_install, line 426: if not success
InstallFails_OnlyOnTimeout(r) == r[3] = TimeoutMessage

InstallFails(r) == ~r[1]

\* Stage 7, _install_dependencies (259-284) with code_run_npm_install.
InstallDependencies ==
    /\ OthersIdleInMain
    /\ AtStage(7)
    /\ commands' = commands \cup {"npm install"}
    /\ \E o \in InstallOutcomes :
         /\ install_run' = o
         /\ IF InstallFails(RunCommand(o))
              THEN /\ StageReraises(7, "NpmInstallError")
                   /\ \E d \in {"none", "partial"} : disk' = [disk EXCEPT !.deps = d]
              ELSE /\ StageReturns(7)
                   /\ disk' = [disk EXCEPT !.deps = "installed"]
    /\ UNCHANGED <<manifest, analysis_result>>

\* Stage 8, _build_with_fix (286-310) with code_run_build_with_fix: without a
\* build command the agent raises Exception before running anything; otherwise
\* it returns or raises BuildMaxIterationsError, and its fixes may have
\* rewritten project files either way.
BuildWithFix ==
    /\ OthersIdleInMain
    /\ AtStage(8)
    /\ IF ~Truthy(analysis_result.build_command)
            \/ ~HasAttr(analysis_result, "eslint_fix_command")
         THEN /\ StageReraises(8, "Exception")
              /\ UNCHANGED <<disk, commands>>
         ELSE /\ commands' = commands \cup {"build"}
                    \cup (IF Truthy(analysis_result.eslint_fix_command)
                            THEN {"eslint fix"} ELSE {})
              /\ \E f \in BOOLEAN : disk' = [disk EXCEPT !.fixes = f]
              /\ \/ StageReraises(8, "BuildMaxIterationsError")
                 \/ StageReturns(8)
    /\ UNCHANGED <<install_run, manifest, analysis_result>>

\* Stage 9, _backup_original_css (312-366) with code_file_agent.
BackupOriginalCss ==
    /\ OthersIdleInMain
    /\ AtStage(9)
    /\ \/ /\ \E c \in {"FileNotFoundError", "FileCopyError"} : StageReraises(9, c)
          /\ UNCHANGED disk
       \/ /\ StageReturns(9)
          /\ disk' = [disk EXCEPT !.backup = TRUE]
    /\ UNCHANGED <<install_run, manifest, analysis_result, commands>>

\* Stage 10, _generate_original_theme_summary (368-410) with
\* css_theme_summary_generator.
GenerateOriginalThemeSummary ==
    /\ OthersIdleInMain
    /\ AtStage(10)
    /\ \/ /\ \E c \in {"CssThemeFileNotFoundError", "ThemeJsonWriteError", "Exception"} :
               StageReraises(10, c)
          /\ UNCHANGED disk
       \/ /\ StageReturns(10)
          /\ disk' = [disk EXCEPT !.original_json = TRUE]
    /\ UNCHANGED <<install_run, manifest, analysis_result, commands>>

\* Stage 11, _generate_additional_themes (412-452) with css_generator_agent:
\* a failed write of the theme files may leave some of them.
GenerateAdditionalThemes ==
    /\ OthersIdleInMain
    /\ AtStage(11)
    /\ \/ /\ \E c \in {"CssFileReadError", "ThemeGenerationError", "Exception"} :
               StageReraises(11, c)
          /\ UNCHANGED disk
       \/ /\ StageReraises(11, "ThemesDirectoryError")
          /\ \E v \in {"none", "partial"} : disk' = [disk EXCEPT !.variants = v]
       \/ /\ StageReturns(11)
          /\ disk' = [disk EXCEPT !.variants = "five"]
    /\ UNCHANGED <<install_run, manifest, analysis_result, commands>>

\* Outcomes of code_run_start_dev_server, imported by main.py:24-27.
DevServerOutcomes == {"ok", "PortKillError", "DevServerStartError", "Exception"}

\* Stage 12, _start_development_server (454-508): without a start command the
\* stage raises Exception and calls nothing.
StartDevelopmentServer ==
    /\ OthersIdleInMain
    /\ AtStage(12)
    /\ IF ~Truthy(analysis_result.start_command)
         THEN /\ StageRaises(12, "none", "Exception")
              /\ UNCHANGED <<disk, commands>>
         ELSE \E o \in DevServerOutcomes :
                IF o = "ok"
                  THEN /\ StageReturns(12)
                       /\ disk' = [disk EXCEPT !.dev_server = TRUE]
                       /\ commands' = commands \cup {"start"}
                  ELSE /\ StageReraises(12, o)
                       /\ UNCHANGED <<disk, commands>>
    /\ UNCHANGED <<install_run, manifest, analysis_result>>

\* Lines 581-593: both except clauses log and re-raise; they touch no file.
DiskAfterFailure_RemovesClone(d) == [d EXCEPT !.repo = "absent"]

DiskAfterFailure(d) == d

\* Lines 581-593: the kind that leaves main is the kind the stage raised.
MainExcept ==
    /\ OthersIdleInMain
    /\ main_pc = "handler"
    /\ main_pc' = "raised"
    /\ escaped' = stage_error
    /\ disk' = DiskAfterFailure(disk)
    /\ UNCHANGED <<install_run, next_stage, github_repo_url, started, completed, failed_stage,
                   component_error, stage_error, manifest, analysis_result, commands>>

\* Lines 574-579: all stage calls returned; main logs and returns.
MainCompleted ==
    /\ OthersIdleInMain
    /\ main_pc = "epilogue"
    /\ main_pc' = "completed"
    /\ UNCHANGED <<install_run, next_stage, github_repo_url, started, completed, failed_stage,
                   component_error, stage_error, escaped, manifest, analysis_result,
                   disk, commands>>

MainNext ==
    \/ ValidateInput
    \/ CloneRepository
    \/ AnalyzeProject
    \/ InitializeProject
    \/ AnalyzeCss
    \/ ProcessColorTheme
    \/ InstallDependencies
    \/ BuildWithFix
    \/ BackupOriginalCss
    \/ GenerateOriginalThemeSummary
    \/ GenerateAdditionalThemes
    \/ StartDevelopmentServer
    \/ MainExcept
    \/ MainCompleted

(***************************************************************************)
(* Standalone entry point of main.py                                       *)
(***************************************************************************)
\* Command lines: help requested or not, options argparse accepts or not, the
\* URL argument (absent, empty, blank, or a non-blank string) and the
\* --workspace argument (absent, a directory, a path not yet there, a file).
CliUrls == {"none", "empty_str", "blank_str", "not_github", "github"}

CliWorkspaces == {"none", "dir", "new", "file"}

\* The entry point starts with a command line.
CliStart ==
    \E h \in BOOLEAN, ok \in BOOLEAN, u \in CliUrls, w \in CliWorkspaces :
        cli = [pc |-> "parse", help |-> h, parse_ok |-> ok, url |-> u,
               workspace |-> w, exit_status |-> -1]

\* The process ends with status n.
CliExit(n) == cli' = [cli EXCEPT !.pc = "exited", !.exit_status = n]

\* _parse_arguments (596-639): parser.parse_args() prints the help and exits
\* with status 0 for -h/--help, and exits with status 2 for a command line it
\* cannot parse; the handler of lines 714-716 re-raises SystemExit.
CliParse ==
    /\ cli.pc = "parse"
    /\ IF cli.help THEN CliExit(0)
       ELSE IF ~cli.parse_ok THEN CliExit(2)
       ELSE cli' = [cli EXCEPT !.pc = "validate"]
    /\ UNCHANGED <<bvars, avars, mvars>>
    /\ RestUnchanged("cli")

\* Lines 652, 660 and 675-677: the argument checks that end in sys.exit(1).
ArgumentsRejected(c) ==
    \/ c.url \in {"none", "empty_str"}
    \/ c.url = "blank_str"
    \/ c.workspace = "file"

\* _validate_arguments (641-685), then lines 708-712: the workflow object is
\* built and main is called with the URL argument.
CliValidate ==
    /\ cli.pc = "validate"
    /\ IF ArgumentsRejected(cli)
         THEN /\ CliExit(1)
              /\ UNCHANGED mvars
         ELSE /\ cli' = [cli EXCEPT !.pc = "main"]
              /\ main_pc' = "stage"
              /\ next_stage' = 1
              /\ github_repo_url' = cli.url
              /\ UNCHANGED <<started, completed, failed_stage, component_error,
                             stage_error, escaped, manifest, analysis_result, disk,
                             commands, install_run>>
    /\ UNCHANGED <<bvars, avars>>
    /\ RestUnchanged("cli")

\* Lines 712-720: the status of the process once main has returned or raised.
ExitStatusAfterMain_Swallows(pc) == IF pc \in {"completed", "raised"} THEN 0 ELSE 1

ExitStatusAfterMain(pc) == IF pc = "completed" THEN 0 ELSE 1

\* Lines 712-720: main returned and the module body ends, or an Exception
\* escaped main and the handler of lines 717-719 calls sys.exit(1).
CliFinish ==
    /\ cli.pc = "main"
    /\ main_pc \in {"completed", "raised"}
    /\ CliExit(ExitStatusAfterMain(main_pc))
    /\ UNCHANGED <<bvars, avars, mvars>>
    /\ RestUnchanged("cli")

CliNext ==
    \/ CliParse
    \/ CliValidate
    \/ ValidateInput
    \/ CloneRepository
    \/ AnalyzeProject
    \/ InitializeProject
    \/ AnalyzeCss
    \/ ProcessColorTheme
    \/ InstallDependencies
    \/ BuildWithFix
    \/ BackupOriginalCss
    \/ GenerateOriginalThemeSummary
    \/ GenerateAdditionalThemes
    \/ StartDevelopmentServer
    \/ MainExcept
    \/ MainCompleted
    \/ CliFinish

(***************************************************************************)
(* Theme generator: css_generator_agent                                    *)
(***************************************************************************)
\* Lines 292-293: minItems and maxItems of generated_themes in the JSON schema
\* sent with the request.
RequestedThemes == 5

\* Longest generated_themes list of a response.
MaxThemes == 6

\* Filenames a response can carry that name no theme on disk.
ThemePool == <<"t1", "t2", "t3", "t4", "t5", "t6", "t7", "t8">>

\* Themes that can already be in the themes directory; "original" is the
\* backup and summary of the original stylesheet.
ExistingNames == {"original", "ocean"}

\* generated_themes lists of parsed responses, by filename: n new names, and
\* the same with the last name replaced by the name of a theme on disk or by
\* the first name of the list.
Responses ==
    LET fresh(n) == SubSeq(ThemePool, 1, n)
    IN  {fresh(n) : n \in 0..MaxThemes}
        \cup UNION {{[fresh(n) EXCEPT ![n] = x] : x \in ExistingNames \cup {"t1"}} :
                      n \in 1..MaxThemes}

ThemeFile(n, e) == [name |-> n, ext |-> e]

\* A call of css_generator_agent: the original CSS path, the themes directory
\* (missing, empty, not listable, or holding themes), the themes whose JSON
\* file is in it and those among them whose JSON cannot be loaded.
GenStart ==
    \E c \in {"missing", "not_file", "unreadable", "ok"},
       d \in {"missing", "empty", "unlistable", "themes"},
       ex \in SUBSET ExistingNames :
       \E br \in SUBSET ex :
        /\ (d = "themes") <=> (ex /= {})
        /\ gen = [pc |-> "start", css_file |-> c, dir |-> d, existing |-> ex,
                  broken |-> br, scanned |-> {}, prompt |-> "none",
                  llm_calls |-> 0, response |-> <<>>, write_idx |-> 0,
                  writes |-> <<>>, outcome |-> "none"]

GenFrame == UNCHANGED <<bvars, avars, mvars>> /\ RestUnchanged("gen")

\* The call returns or raises `kind`.
GenEnd(kind) == gen' = [gen EXCEPT !.pc = "done", !.outcome = kind]

\* Lines 472-487: the checks of the original CSS path and its read.
GenBegin ==
    /\ gen.pc = "start"
    /\ IF gen.css_file \in {"missing", "not_file"} THEN GenEnd("CssFileReadError")
       ELSE IF gen.css_file = "unreadable" THEN GenEnd("Exception")
       ELSE gen' = [gen EXCEPT !.pc = "scan"]
    /\ GenFrame

\* _scan_existing_themes (176-224): a missing directory gives the empty list;
\* a JSON file that cannot be loaded is skipped; a failing listing raises.
ScanExistingThemes_FailsWithoutThemes(g) ==
    IF g.dir \in {"missing", "empty", "unlistable"}
      THEN [raised |-> TRUE, themes |-> {}]
      ELSE [raised |-> FALSE, themes |-> g.existing \ g.broken]

ScanExistingThemes(g) ==
    IF g.dir = "missing" THEN [raised |-> FALSE, themes |-> {}]
    ELSE IF g.dir = "unlistable" THEN [raised |-> TRUE, themes |-> {}]
    ELSE [raised |-> FALSE, themes |-> g.existing \ g.broken]

\* Line 492.
GenScan ==
    /\ gen.pc = "scan"
    /\ LET r == ScanExistingThemes(gen)
       IN  IF r.raised THEN GenEnd("ThemesDirectoryError")
           ELSE gen' = [gen EXCEPT !.pc = "generate", !.scanned = r.themes]
    /\ GenFrame

\* Lines 300-315: the part of the prompt about the existing themes.
ExistingThemesInfo(themes) == IF themes /= {} THEN "avoid_existing" ELSE "no_existing"

\* Line 390: ThemeGenerationResult(**generation_data) accepts a list of
\* well-formed themes of any length, with any filenames.
ResponseAccepted(r) == TRUE

\* _generate_new_themes (227-400): the request is sent; a failing call, an
\* empty or unparsable content or an ill-formed theme raises
\* ThemeGenerationError; otherwise the parsed list is returned.
GenGenerate ==
    /\ gen.pc = "generate"
    /\ \/ gen' = [gen EXCEPT !.pc = "done", !.outcome = "ThemeGenerationError",
                             !.llm_calls = @ + 1,
                             !.prompt = ExistingThemesInfo(gen.scanned)]
       \/ \E r \in Responses :
            /\ ResponseAccepted(r)
            /\ gen' = [gen EXCEPT !.pc = "write", !.response = r, !.write_idx = 1,
                                  !.llm_calls = @ + 1,
                                  !.prompt = ExistingThemesInfo(gen.scanned)]
    /\ GenFrame

\* _write_theme_files (403-442), one pass of the loop: <name>.css then
\* <name>.json are opened for writing; a failing write raises
\* ThemesDirectoryError and leaves what was written.
GenWriteTheme ==
    /\ gen.pc = "write"
    /\ gen.write_idx <= Len(gen.response)
    /\ LET n == gen.response[gen.write_idx]
       IN  \/ gen' = [gen EXCEPT !.write_idx = @ + 1,
                         !.writes = @ \o <<ThemeFile(n, "css"), ThemeFile(n, "json")>>]
           \/ gen' = [gen EXCEPT !.pc = "done", !.outcome = "ThemesDirectoryError"]
           \/ gen' = [gen EXCEPT !.pc = "done", !.outcome = "ThemesDirectoryError",
                         !.writes = Append(@, ThemeFile(n, "css"))]
    /\ GenFrame

\* Lines 498-501: every theme of the list was written; the call returns.
GenReturn ==
    /\ gen.pc = "write"
    /\ gen.write_idx > Len(gen.response)
    /\ GenEnd("return")
    /\ GenFrame

GenNext ==
    \/ GenBegin
    \/ GenScan
    \/ GenGenerate
    \/ GenWriteTheme
    \/ GenReturn

(***************************************************************************)
(* Dev-server stage: _start_development_server                             *)
(***************************************************************************)
\* Processes that can hold the requested port when the stage starts.
ForeignProcesses == {"pid1", "pid2", "pid3"}

\* A call of _start_development_server: the start command of the analysis,
\* the requested port and the processes listening on it.
SrvStart ==
    \E c \in {"", "npm start"}, p \in {3000, 8080}, occ \in SUBSET ForeignProcesses :
        srv = [pc |-> "stage", start_command |-> c, port |-> p, occupants |-> occ,
               killed |-> {}, kill_failed |-> FALSE, events |-> <<>>,
               component |-> "none", outcome |-> "none"]

SrvFrame == UNCHANGED <<bvars, avars, mvars>> /\ RestUnchanged("srv")

\* Lines 480-490: without a start command the stage raises Exception and
\* calls nothing; otherwise it calls code_run_start_dev_server.
SrvStageBegin ==
    /\ srv.pc = "stage"
    /\ IF ~Truthy(srv.start_command)
         THEN srv' = [srv EXCEPT !.pc = "done", !.outcome = "Exception"]
         ELSE srv' = [srv EXCEPT !.pc = "port"]
    /\ SrvFrame

\* code_run_start_dev_server: a process occupying the port is terminated; a
\* termination that fails raises PortKillError.
SrvKillProcess ==
    /\ srv.pc = "port"
    /\ \E p \in srv.occupants \ srv.killed :
         \/ srv' = [srv EXCEPT !.killed = @ \cup {p}, !.events = Append(@, "kill")]
         \/ srv' = [srv EXCEPT !.pc = "handler", !.kill_failed = TRUE,
                               !.component = "PortKillError"]
    /\ SrvFrame

\* code_run_start_dev_server: with the port free the start command is
\* launched in the background; a failing launch raises DevServerStartError.
SrvLaunch ==
    /\ srv.pc = "port"
    /\ srv.occupants \ srv.killed = {}
    /\ \/ srv' = [srv EXCEPT !.pc = "handler", !.events = Append(@, "start"),
                             !.component = "return"]
       \/ \E k \in {"DevServerStartError", "Exception"} :
            srv' = [srv EXCEPT !.pc = "handler", !.component = k]
    /\ SrvFrame

\* Lines 502-508: both except clauses of the stage log and re-raise.
StageOutcome_Generic(component) ==
    IF component = "return" THEN "return" ELSE "Exception"

StageOutcome(component) == component

\* Lines 496-508: the stage returns the server info or re-raises.
SrvStageEnd ==
    /\ srv.pc = "handler"
    /\ srv' = [srv EXCEPT !.pc = "done", !.outcome = StageOutcome(srv.component)]
    /\ SrvFrame

SrvNext ==
    \/ SrvStageBegin
    \/ SrvKillProcess
    \/ SrvLaunch
    \/ SrvStageEnd

(***************************************************************************)
(* Theme application and summary: css_apply_agent, then                    *)
(* css_theme_summary_generator on the main stylesheet                      *)
(***************************************************************************)
\* Longest representative_colors list of a response.
MaxColors == 2

HexDigits ==
    {"0", "1", "2", "3", "4", "5", "6", "7", "8", "9",
     "a", "b", "c", "d", "e", "f", "A", "B", "C", "D", "E", "F"}

\* A HEX color string, as the sequence of its characters: "#" followed by 3
\* or 6 hexadecimal digits.
IsHexColor(c) ==
    /\ Len(c) \in {4, 7}
    /\ c[1] = "#"
    /\ \A i \in 2..Len(c) : c[i] \in HexDigits

\* Strings a response can carry as colors: "#1a2B3c", "#fff", "red", "#ggg", "".
ColorStrings ==
    {<<"#", "1", "a", "2", "B", "3", "c">>, <<"#", "f", "f", "f">>,
     <<"r", "e", "d">>, <<"#", "g", "g", "g">>, <<>>}

\* Contents of the LLM response of the summary call: a JSON object with the
\* two fields (any title string, any list of strings), or an object with an
\* extra field, without representative_colors, with representative_colors
\* that is no list of strings, a text that is no JSON, or no content.
SummaryResponses ==
    {[shape |-> "object", title |-> t, representative_colors |-> cs] :
        t \in {"", "Ocean"}, cs \in SeqsUpTo(ColorStrings, MaxColors)}
    \cup {[shape |-> s, title |-> "Ocean", representative_colors |-> <<>>] :
            s \in {"extra_field", "missing_field", "colors_not_strings",
                   "not_json", "empty"}}

NoSummary == [shape |-> "none"]

\* A call of css_apply_agent for a generated theme, to be followed by
\* css_theme_summary_generator on the main stylesheet.
AppStart ==
    \E d \in {"missing", "not_dir", "ok"}, t \in {"missing", "ok"},
       m \in {"missing", "ok"}, w \in BOOLEAN :
        app = [pc |-> "apply", themes_dir |-> d, theme_file |-> t, main_css |-> m,
               writable |-> w, main_content |-> "previous", apply_outcome |-> "none",
               llm_calls |-> 0, response |-> NoSummary, written |-> NoSummary,
               outcome |-> "none"]

AppFrame == UNCHANGED <<bvars, avars, mvars>> /\ RestUnchanged("app")

\* css_apply_agent (63-165): the checks of lines 105-134, then the theme file
\* is read and written over the main stylesheet.  CssApplyError raised inside
\* the try block for the themes directory is caught by the last handler and
\* replaced by Exception; a failing write is an OSError.
ApplyOutcome(a) ==
    IF a.themes_dir /= "ok" THEN "Exception"
    ELSE IF a.theme_file /= "ok" THEN "ThemeFileNotFoundError"
    ELSE IF a.main_css /= "ok" THEN "MainCssFileNotFoundError"
    ELSE IF ~a.writable THEN "CssApplyError"
    ELSE "return"

AppApply ==
    /\ app.pc = "apply"
    /\ LET o == ApplyOutcome(app)
       IN  IF o = "return"
             THEN app' = [app EXCEPT !.pc = "summary", !.apply_outcome = o,
                                     !.main_content = "theme"]
             ELSE app' = [app EXCEPT !.pc = "done", !.apply_outcome = o]
    /\ AppFrame

\* Line 495: CssThemeSummary(**theme_data) accepts an object with exactly the
\* fields title (a string) and representative_colors (a list of strings).
SummaryAccepted(r) == r.shape = "object"

\* css_theme_summary_generator, lines 380-495: the stylesheet is read, the
\* request sent and the response extracted, parsed and validated; the call
\* itself can fail.
SumGenerate ==
    /\ app.pc = "summary"
    /\ \/ app' = [app EXCEPT !.pc = "done", !.outcome = "Exception",
                             !.llm_calls = @ + 1]
       \/ \E r \in SummaryResponses :
            IF SummaryAccepted(r)
              THEN app' = [app EXCEPT !.pc = "write", !.response = r,
                                      !.llm_calls = @ + 1]
              ELSE app' = [app EXCEPT !.pc = "done", !.response = r,
                                      !.outcome = "Exception", !.llm_calls = @ + 1]
    /\ AppFrame

\* Lines 501-510: the validated summary is dumped to the JSON file; a failing
\* write raises ThemeJsonWriteError, a failing mkdir Exception.
SumWrite ==
    /\ app.pc = "write"
    /\ \/ app' = [app EXCEPT !.pc = "done", !.written = app.response,
                             !.outcome = "return"]
       \/ \E k \in {"ThemeJsonWriteError", "Exception"} :
            app' = [app EXCEPT !.pc = "done", !.outcome = k]
    /\ AppFrame

AppNext ==
    \/ AppApply
    \/ SumGenerate
    \/ SumWrite

(***************************************************************************)
(* Project analysis called twice: code_analyze_agent                       *)
(***************************************************************************)
\* What the LLM call of one analysis comes to: the call fails, the content
\* does not validate as FrontendProjectAnalysis (no JSON, a missing or an
\* extra field), or it is an object with the four declared fields.
AnalysisResponses ==
    {[shape |-> s] : s \in {"api_error", "not_json", "extra_field"}}
    \cup {[shape |-> "object", is_frontend_project |-> f, start_command |-> s,
           build_command |-> b, ui_frameworks_info |-> u] :
            f \in BOOLEAN, s \in {"", "npm start"},
            b \in {"", "npm run build"}, u \in {"", "react"}}

\* Two calls of code_analyze_agent on one directory whose package.json is not
\* changed in between.
AnaStart ==
    \E d \in BOOLEAN, m \in {"absent", "manifest_a", "manifest_b"} :
        /\ (~d) => m = "absent"
        /\ ana = [pc |-> "call", dir_exists |-> d, package_json |-> m,
                  config_cached |-> FALSE, requests |-> <<>>, results |-> <<>>]

AnaFrame == UNCHANGED <<bvars, avars, mvars>> /\ RestUnchanged("ana")

\* Lines 216-229: the value returned or the kind raised for a response.
AnalysisOutcome(r) ==
    IF r.shape = "object"
      THEN [kind |-> "return", is_frontend_project |-> r.is_frontend_project,
            start_command |-> r.start_command, build_command |-> r.build_command,
            ui_frameworks_info |-> r.ui_frameworks_info]
      ELSE [kind |-> "Exception"]

\* code_analyze_agent (72-229), one call: without the directory or the
\* package.json it raises PackageJsonNotFoundError; otherwise it reads the
\* file, loads the configuration (cached by lru_cache after the first load),
\* sends the content to the LLM and returns the validated response.  It
\* writes no file.
AnaCall ==
    /\ ana.pc = "call"
    /\ Len(ana.results) < 2
    /\ IF ~ana.dir_exists \/ ana.package_json = "absent"
         THEN ana' = [ana EXCEPT
                        !.results = Append(@, [kind |-> "PackageJsonNotFoundError"])]
         ELSE \E r \in AnalysisResponses :
                ana' = [ana EXCEPT !.config_cached = TRUE,
                                   !.requests = Append(@, ana.package_json),
                                   !.results = Append(@, AnalysisOutcome(r))]
    /\ AnaFrame

\* Both calls have ended.
AnaEnd ==
    /\ ana.pc = "call"
    /\ Len(ana.results) = 2
    /\ ana' = [ana EXCEPT !.pc = "done"]
    /\ AnaFrame

AnaNext ==
    \/ AnaCall
    \/ AnaEnd

(***************************************************************************)
(* Command runner called twice: _run_command                               *)
(***************************************************************************)
\* Two commands are run; each comes to one of the process outcomes.
CmdStart ==
    \E o1 \in ProcessOutcomes, o2 \in ProcessOutcomes :
        cmd = [pc |-> "run", outcomes |-> <<o1, o2>>, results |-> <<>>]

CmdFrame == UNCHANGED <<bvars, avars, mvars>> /\ RestUnchanged("cmd")

\* One call of _run_command (116-142): it returns its tuple.
CmdRun ==
    /\ cmd.pc = "run"
    /\ Len(cmd.results) < Len(cmd.outcomes)
    /\ cmd' = [cmd EXCEPT
                 !.results = Append(@, RunCommand(cmd.outcomes[Len(cmd.results) + 1]))]
    /\ CmdFrame

\* Both calls have returned.
CmdEnd ==
    /\ cmd.pc = "run"
    /\ Len(cmd.results) = Len(cmd.outcomes)
    /\ cmd' = [cmd EXCEPT !.pc = "done"]
    /\ CmdFrame

CmdNext ==
    \/ CmdRun
    \/ CmdEnd

(***************************************************************************)
(* Worker pool of code_act_agent: the submit loop and the executor         *)
(***************************************************************************)
\* A call that reached line 514 with the scanned files numbered 1..n.
PoolStart ==
    \E n \in 1..MaxPoolFiles :
        pool = [pc |-> "submit", n |-> n, submitted |-> 0,
                state |-> [i \in 1..n |-> "unsubmitted"],
                tasks |-> [i \in 1..n |-> 0]]

PoolFrame == UNCHANGED <<bvars, avars, mvars>> /\ RestUnchanged("pool")

\* Files whose task a worker thread is executing.
PoolRunning == {i \in DOMAIN pool.state : pool.state[i] = "running"}

\* Lines 516-525: one pass of the submit loop creates the future of the next
\* file; after the last file the loop over as_completed begins.
PoolSubmit ==
    /\ PoolFrame
    /\ pool.pc = "submit"
    /\ LET i == pool.submitted + 1
       IN  pool' = [pool EXCEPT
                      !.submitted = i,
                      !.state[i] = "queued",
                      !.tasks[i] = @ + 1,
                      !.pc = IF i = pool.n THEN "collect" ELSE "submit"]

\* A worker thread takes the oldest queued task.
PoolTaskStart(i) ==
    /\ PoolFrame
    /\ pool.pc \in {"submit", "collect"}
    /\ pool.state[i] = "queued"
    /\ WorkerFree(PoolRunning)
    /\ \A j \in 1..(i - 1) : pool.state[j] /= "queued"
    /\ pool' = [pool EXCEPT !.state[i] = "running"]

\* _process_single_file returns or raises; its worker is free again.
PoolTaskFinish(i) ==
    /\ PoolFrame
    /\ pool.pc \in {"submit", "collect"}
    /\ pool.state[i] = "running"
    /\ pool' = [pool EXCEPT !.state[i] = "done"]

\* Lines 527-536: the with block is left once every future has completed.
PoolJoin ==
    /\ PoolFrame
    /\ pool.pc = "collect"
    /\ \A i \in 1..pool.n : pool.state[i] = "done"
    /\ pool' = [pool EXCEPT !.pc = "joined"]

PoolNext ==
    \/ PoolSubmit
    \/ \E i \in DOMAIN pool.state : PoolTaskStart(i)
    \/ \E i \in DOMAIN pool.state : PoolTaskFinish(i)
    \/ PoolJoin

(***************************************************************************)
(* Error-file extraction: _extract_error_files                             *)
(***************************************************************************)
\* JSON values an element of error_files can be.
JsonItems ==
    {[t |-> "string", v |-> "a.tsx"], [t |-> "string", v |-> "b.tsx"],
     [t |-> "number"], [t |-> "null"]}

\* JSON values of the member error_files.
ErrorFilesValues ==
    {[t |-> "null"], [t |-> "string"], [t |-> "number"], [t |-> "object"]}
        \cup {[t |-> "array", items |-> s] : s \in SeqsUpTo(JsonItems, MaxItems)}

\* JSON objects by their members: error_files present or not, a further
\* member "note" present or not.
JsonObjects ==
    {[t |-> "object", members |-> [k \in {} |-> [t |-> "null"]]],
     [t |-> "object", members |-> [note |-> [t |-> "string"]]]}
        \cup {[t |-> "object", members |-> [error_files |-> v]] :
                 v \in ErrorFilesValues}
        \cup {[t |-> "object",
               members |-> [error_files |-> v, note |-> [t |-> "string"]]] :
                 v \in ErrorFilesValues}

\* What json.loads(content) can return.
JsonDocuments ==
    {[t |-> "null"], [t |-> "string"], [t |-> "number"],
     [t |-> "array", items |-> <<>>]} \cup JsonObjects

\* The content taken from the response (lines 226-237): nothing or the empty
\* string, a text that is not JSON, or a JSON document.
ResponseContents ==
    {[kind |-> "empty"], [kind |-> "text"]}
        \cup {[kind |-> "json", doc |-> d] : d \in JsonDocuments}

\* The except clause of lines 256-258: every failure leaves as Exception.
ExtractRaises == [kind |-> "raised", error |-> "Exception"]

\* Lines 239-240: if not content: raise
OnEmptyContent_ReturnsEmptyList == [kind |-> "list", value |-> <<>>]

OnEmptyContent == ExtractRaises

\* BuildErrorFileExtraction(**extraction_data) (78-94): error_files is
\* required and must be a list of str; extra = "forbid" rejects any other
\* member.  Unpacking a document that is not an object raises TypeError.
ValidatesAsExtraction(d) ==
    /\ d.t = "object"
    /\ "error_files" \in DOMAIN d.members
    /\ DOMAIN d.members \subseteq {"error_files"}
    /\ d.members.error_files.t = "array"
    /\ \A i \in DOMAIN d.members.error_files.items :
         d.members.error_files.items[i].t = "string"

\* Lines 239-254: the result of _extract_error_files for a response content.
ExtractResult(c) ==
    IF c.kind = "empty" THEN OnEmptyContent
    ELSE IF c.kind = "text" THEN ExtractRaises
    ELSE IF ~ValidatesAsExtraction(c.doc) THEN ExtractRaises
    ELSE [kind |-> "list",
          value |-> [i \in DOMAIN c.doc.members.error_files.items |->
                        c.doc.members.error_files.items[i].v]]

\* A call of _extract_error_files about to send its request.
ExtStart ==
    \E c \in ResponseContents : xtr = [pc |-> "call", content |-> c]

ExtFrame == UNCHANGED <<bvars, avars, mvars>> /\ RestUnchanged("xtr")

\* Lines 160-221: reading the configuration or the request raises.
ExtCallFails ==
    /\ ExtFrame
    /\ xtr.pc = "call"
    /\ xtr' = [pc |-> "done", content |-> [kind |-> "none"], result |-> ExtractRaises]

\* Lines 223-254: the response arrived; its content is parsed and validated.
ExtParse ==
    /\ ExtFrame
    /\ xtr.pc = "call"
    /\ xtr' = [pc |-> "done", content |-> xtr.content,
               result |-> ExtractResult(xtr.content)]

ExtNext ==
    \/ ExtCallFails
    \/ ExtParse

(***************************************************************************)
(* Main stylesheet: css_analyze_agent and the later uses of its result     *)
(***************************************************************************)
\* Relative paths of .css files a project can hold outside the excluded
\* directories.
CssPaths == {"src/index.css", "src/app.css", "public/theme.css"}

\* main_css_path values the LLM can answer: a scanned path, a path of the
\* project that was not scanned, or a path of no file.
CssAnswers == CssPaths \cup {"styles/none.css"}

\* Lines 329-338: the answered path is looked up among the scanned
\* (relative_path, content) pairs.
MainCssFound_Unchecked(scanned, path) == path \in CssAnswers

MainCssFound(scanned, path) == path \in scanned

\* A call of css_analyze_agent on a cloned project: the .css files on disk
\* and those among them that cannot be read.
CssStart ==
    \E d \in SUBSET CssPaths, u \in SUBSET CssPaths :
        /\ u \subseteq d
        /\ css = [pc |-> "scan", on_disk |-> d, unreadable |-> u, scanned |-> {},
                  main_css_path |-> "", uses |-> {}, outcome |-> "none"]

CssFrame == UNCHANGED <<bvars, avars, mvars>> /\ RestUnchanged("css")

\* _scan_css_files (136-198): files that cannot be read are skipped; no
\* file read raises CssFileNotFoundError.
CssScan ==
    /\ CssFrame
    /\ css.pc = "scan"
    /\ LET s == css.on_disk \ css.unreadable
       IN  css' = IF s = {}
                    THEN [css EXCEPT !.pc = "done", !.outcome = "CssFileNotFoundError"]
                    ELSE [css EXCEPT !.pc = "analyze", !.scanned = s]

\* Lines 243-346: the LLM call fails or answers a path; a path that is not
\* among the scanned ones raises, another one is returned.
CssAnalyze ==
    /\ CssFrame
    /\ css.pc = "analyze"
    /\ \/ css' = [css EXCEPT !.pc = "done", !.outcome = "Exception"]
       \/ \E path \in CssAnswers :
            css' = IF MainCssFound(css.scanned, path)
                     THEN [css EXCEPT !.pc = "stage6", !.main_css_path = path]
                     ELSE [css EXCEPT !.pc = "done", !.outcome = "Exception"]

\* Stage 6, code_act_agent (498-505, 543-561): the stylesheet is read, the
\* per-file writes create or overwrite files, and the stylesheet is written.
\* Nothing is deleted.  The stage may raise after the read.
CssStage6 ==
    /\ CssFrame
    /\ css.pc = "stage6"
    /\ LET read == [op |-> "read", exists |-> css.main_css_path \in css.on_disk]
           write == [op |-> "write", exists |-> css.main_css_path \in css.on_disk]
       IN  \/ css' = [css EXCEPT !.pc = "done", !.outcome = "Exception",
                                 !.uses = @ \cup {read}]
           \/ \E written \in SUBSET CssAnswers :
                css' = [css EXCEPT !.pc = "stage7",
                                   !.on_disk = @ \cup written \cup {css.main_css_path},
                                   !.uses = @ \cup {read, write}]

\* Stages 7 and 8: npm install and the build-repair loop, whose fixes
\* overwrite files that exist (code_run_agent.py 276-280, 382-383).
CssStages7And8 ==
    /\ CssFrame
    /\ css.pc = "stage7"
    /\ \/ css' = [css EXCEPT !.pc = "done", !.outcome = "Exception"]
       \/ css' = [css EXCEPT !.pc = "stage9"]

\* Stage 9, _backup_original_css (main.py 335-352): the stylesheet is copied.
CssStage9 ==
    /\ CssFrame
    /\ css.pc = "stage9"
    /\ LET copy == [op |-> "copy", exists |-> css.main_css_path \in css.on_disk]
       IN  css' = [css EXCEPT !.pc = "done", !.outcome = "copied",
                              !.uses = @ \cup {copy}]

CssNext ==
    \/ CssScan
    \/ CssAnalyze
    \/ CssStage6
    \/ CssStages7And8
    \/ CssStage9

(***************************************************************************)
(* Pagination loops of TwitterService                                      *)
(***************************************************************************)
\* The three paginated methods.
TwitterMethods == {"get_following", "get_user_last_tweets", "tweet_advanced_search"}

\* next_cursor values of a page ("" is an absent or empty cursor).
Cursors == {"", "c1", "c2"}

\* What one request of the loop can come to: the request raises, the status
\* is not 200, the body is not a success answer, the body lacks the items
\* key, or the body is a page of n items.
ApiResponses ==
    {[kind |-> k, n |-> 0, has_next_page |-> FALSE, next_cursor |-> ""] :
        k \in {"request_error", "http_error", "not_success", "no_items_key"}}
    \cup {[kind |-> "page", n |-> n, has_next_page |-> h, next_cursor |-> c] :
            n \in 0..MaxPageItems, h \in BOOLEAN, c \in Cursors}

\* No page fetched yet.
NoPage == [seen |-> FALSE, has_next_page |-> FALSE, next_cursor |-> ""]

\* A call of one of the methods with its max_results argument.
TwStart ==
    \E m \in TwitterMethods, r \in (0 - 1)..MaxResults :
        tw = [pc |-> "loop", method |-> m, max_results |-> r, total_fetched |-> 0,
              pages |-> 0, cursor |-> "", last |-> NoPage,
              result |-> [kind |-> "none"]]

TwFrame == UNCHANGED <<bvars, avars, mvars>> /\ RestUnchanged("tw")

\* Lines 109, 227, 369: while total_fetched < max_results
PageWanted(total, max) == total < max

\* Lines 149-150, 276-277, 425-426: a page without items leaves the loop.
EmptyPageLeaves_Never(n) == n < 0

EmptyPageLeaves(n) == n = 0

\* Lines 122-134, 244-256: get_following and get_user_last_tweets return None
\* for a body that is not a success answer; tweet_advanced_search (390-397)
\* has no such test and leaves the loop for a body without "tweets".
ReturnsNoneFor(method, kind) ==
    \/ kind \in {"request_error", "http_error"}
    \/ kind = "not_success" /\ method /= "tweet_advanced_search"

\* One pass of the while loop (109-154, 227-281, 369-430): a request and the
\* handling of its response.
TwRequest ==
    /\ TwFrame
    /\ tw.pc = "loop"
    /\ PageWanted(tw.total_fetched, tw.max_results)
    /\ \E r \in ApiResponses :
         IF ReturnsNoneFor(tw.method, r.kind)
           THEN tw' = [tw EXCEPT !.pc = "done", !.pages = @ + 1,
                                 !.result = [kind |-> "None"]]
         ELSE IF r.kind /= "page"
           THEN tw' = [tw EXCEPT !.pc = "return", !.pages = @ + 1]
         ELSE LET leaves == ~r.has_next_page \/ EmptyPageLeaves(r.n)
                  page == [seen |-> TRUE, has_next_page |-> r.has_next_page,
                           next_cursor |-> r.next_cursor]
              IN  tw' = [tw EXCEPT
                           !.pages = @ + 1,
                           !.total_fetched = @ + r.n,
                           !.last = page,
                           !.cursor = IF leaves THEN @ ELSE r.next_cursor,
                           !.pc = IF leaves \/ r.next_cursor = ""
                                    THEN "return" ELSE "loop"]

\* Lines 156-160, 283-289, 436-440: the response object is built from the
\* local variable cursor.
ResultFromCursor(cursor) ==
    [kind |-> "response", has_next_page |-> cursor /= "", next_cursor |-> cursor]

\* The loop was left, or its condition is false: the method returns.
TwReturn ==
    /\ TwFrame
    /\ \/ tw.pc = "return"
       \/ tw.pc = "loop" /\ ~PageWanted(tw.total_fetched, tw.max_results)
    /\ tw' = [tw EXCEPT !.pc = "done", !.result = ResultFromCursor(tw.cursor)]

TwNext ==
    \/ TwRequest
    \/ TwReturn

(***************************************************************************)
(* Specifications                                                          *)
(***************************************************************************)
vars == <<bvars, avars, mvars, ovars>>

BuildInit == BuildStart /\ ActIdle /\ MainIdle /\ RestIdle("build")

BuildSpec == BuildInit /\ [][BuildNext]_vars

\* The calls of the operation return: every enabled step is eventually taken.
FairBuildSpec == BuildSpec /\ WF_vars(BuildNext)

ActInit == ActStart /\ BuildIdle /\ MainIdle /\ RestIdle("act")

ActSpec == ActInit /\ [][ActNext]_vars

MainInit == MainStart /\ BuildIdle /\ ActIdle /\ RestIdle("main")

MainSpec == MainInit /\ [][MainNext]_vars

CliInit == CliStart /\ BuildIdle /\ ActIdle /\ MainIdle /\ RestIdle("cli")

CliSpec == CliInit /\ [][CliNext]_vars

GenInit == GenStart /\ BuildIdle /\ ActIdle /\ MainIdle /\ RestIdle("gen")

GenSpec == GenInit /\ [][GenNext]_vars

SrvInit == SrvStart /\ BuildIdle /\ ActIdle /\ MainIdle /\ RestIdle("srv")

SrvSpec == SrvInit /\ [][SrvNext]_vars

AppInit == AppStart /\ BuildIdle /\ ActIdle /\ MainIdle /\ RestIdle("app")

AppSpec == AppInit /\ [][AppNext]_vars

AnaInit == AnaStart /\ BuildIdle /\ ActIdle /\ MainIdle /\ RestIdle("ana")

AnaSpec == AnaInit /\ [][AnaNext]_vars

CmdInit == CmdStart /\ BuildIdle /\ ActIdle /\ MainIdle /\ RestIdle("cmd")

CmdSpec == CmdInit /\ [][CmdNext]_vars

PoolInit == PoolStart /\ BuildIdle /\ ActIdle /\ MainIdle /\ RestIdle("pool")

PoolSpec == PoolInit /\ [][PoolNext]_vars

ExtInit == ExtStart /\ BuildIdle /\ ActIdle /\ MainIdle /\ RestIdle("xtr")

ExtSpec == ExtInit /\ [][ExtNext]_vars

CssInit == CssStart /\ BuildIdle /\ ActIdle /\ MainIdle /\ RestIdle("css")

CssSpec == CssInit /\ [][CssNext]_vars

TwInit == TwStart /\ BuildIdle /\ ActIdle /\ MainIdle /\ RestIdle("tw")

TwSpec == TwInit /\ [][TwNext]_vars

\* The event loop runs the coroutine until it returns.
FairTwSpec == TwSpec /\ WF_vars(TwNext)

(***************************************************************************)
(* Claims about the build-repair loop                                      *)
(***************************************************************************)
\* The call passes the argument checks of lines 464-472 and the attribute read
\* of line 476, so the loop of line 492 is entered.
EntersLoop ==
    /\ dir_exists
    /\ Truthy(frontend_analysis.build_command)
    /\ HasAttr(frontend_analysis, "eslint_fix_command")

C2_EmptyListConsumesOneIteration ==
    /\ [][(build_pc = "extract" /\ last_extract' = "empty")
            => /\ files' = files
               /\ fixed_in_iter' = 0
               /\ iteration' = iteration
               /\ iteration' = build_runs'
               /\ build_runs' = build_runs
               /\ build_pc' = "while"
               /\ build_outcome' = "none"]_vars
    /\ [][(build_pc = "while" /\ last_extract = "empty" /\ build_runs < 20)
            => /\ build_runs' = build_runs + 1
               /\ iteration' = iteration + 1
               /\ build_outcome' /= "BuildMaxIterationsError"]_vars
    /\ []((build_pc = "while" /\ last_extract = "empty" /\ build_runs < 20)
            => ENABLED BuildAttempt)
    /\ [](build_outcome = "BuildMaxIterationsError" => build_runs = 20)

\* The third build attempt is about to start right after an extraction that
\* returned the empty list.
C2_Witness ==
    /\ build_pc = "while"
    /\ last_extract = "empty"
    /\ build_runs = 2
    /\ fixed_in_iter = 0
    /\ fix_llm_calls = 0
    /\ last_fix = "none"

(***************************************************************************)
(* Claims about code_act_agent                                             *)
(***************************************************************************)
FailedTasks == {p \in DOMAIN task : task[p] = "failed"}

\* C3: in code_act_agent, once one of the per-file tasks has failed, no source
\* file is written, the merge call is not made, the main stylesheet is not
\* written, and the operation ends by raising an error whose message names
\* every failed file.
C3_FailedTaskWritesNothing ==
    FailedTasks /= {} =>
        /\ disk_writes = <<>>
        /\ merge_calls = 0
        /\ act_pc \in {"pool", "done"}
        /\ act_pc = "done" =>
             /\ act_outcome = "Exception"
             /\ act_error_names = FailedTasks

C3_Witness ==
    /\ act_pc = "done"
    /\ Cardinality(FailedTasks) >= 2
    /\ \E p \in DOMAIN task : task[p] = "ok"
    /\ act_error_names = FailedTasks

MainCssWrites == {i \in DOMAIN disk_writes : disk_writes[i].path = MainCssPath}

\* C4: in code_act_agent, when every per-file task and the merge call succeed
\* (the operation returns), the main stylesheet has been written exactly once,
\* by the merged-content write, and that write comes after the N per-file
\* source writes.
C4_StylesheetWrittenOnceAfterSources ==
    (act_pc = "done" /\ act_outcome = "return") =>
        /\ Cardinality(MainCssWrites) = 1
        /\ Len(disk_writes) = Len(frontend_files) + 1
        /\ disk_writes[Len(disk_writes)] = [path |-> MainCssPath, by |-> "merge"]
        /\ \A i \in 1..Len(frontend_files) : disk_writes[i].by = "file"

(***************************************************************************)
(* Claims about MainWorkflow.main                                          *)
(***************************************************************************)
Failing == main_pc \in {"handler", "raised"}

\* C5: main starts the 12 stages in the fixed order 1..12 (validate, clone,
\* analyze, init, css-analyze, theme-extract, install, build-repair, backup,
\* summarize, generate-variants, start-dev-server); a stage starts only after
\* every earlier stage has completed; once a stage raises no further stage is
\* started and the only step left is main raising.
C5_StagesRunInOrder ==
    /\ [](/\ Len(started) <= 12
          /\ \A i \in DOMAIN started : started[i] = i
          /\ \A k \in Range(started) : \A j \in 1..(k - 1) : j \in completed
          /\ completed \subseteq Range(started))
    /\ [](failed_stage /= 0 =>
            /\ Failing
            /\ started[Len(started)] = failed_stage
            /\ failed_stage \notin completed)
    /\ [](main_pc = "handler" => ENABLED MainExcept)
    /\ [][Failing => (started' = started /\ completed' = completed
                        /\ main_pc' = "raised")]_vars
    /\ [](main_pc = "completed" => completed = 1..12)

C5_Witness ==
    /\ main_pc = "raised"
    /\ failed_stage = 8
    /\ started = <<1, 2, 3, 4, 5, 6, 7, 8>>
    /\ completed = 1..7

\* C6: when a stage of main fails, the failure path changes nothing on disk,
\* and the artefacts of every stage completed before it (cloned repository,
\* theme directories, rewritten sources and main stylesheet, installed
\* dependencies, backup file) are still there when main raises.
C6_FailureLeavesDiskAlone ==
    /\ [][main_pc = "handler" => disk' = disk]_vars
    /\ [](Failing =>
            /\ 2 \in completed => disk.repo = "cloned"
            /\ 4 \in completed => disk.design_dir /\ disk.themes_dir
            /\ 6 \in completed => disk.sources = "themed" /\ disk.main_css = "themed"
            /\ 7 \in completed => disk.deps = "installed"
            /\ 9 \in completed => disk.backup)

C6_Witness ==
    /\ main_pc = "raised"
    /\ failed_stage = 10
    /\ disk.repo = "cloned"
    /\ disk.themes_dir
    /\ disk.sources = "themed"
    /\ disk.deps = "installed"
    /\ disk.backup

\* C7: for every stage, the error kind that escapes main is the kind the
\* failing lower-level component raised; a missing manifest, missing CSS files
\* and missing frontend source files each reach the caller as their own kind.
C7_EscapedKindIsComponentKind ==
    (main_pc = "raised" /\ component_error /= "none") => escaped = component_error

\* C8: for a cloned project without package.json the analysis stage raises
\* PackageJsonNotFoundError and main aborts before stage 4, so .design and
\* .design/themes are never created.
C8_MissingManifestRaisesItsKind ==
    (Failing /\ failed_stage = 3 /\ ~manifest) =>
        /\ stage_error = "PackageJsonNotFoundError"
        /\ main_pc = "raised" => escaped = "PackageJsonNotFoundError"
        /\ 4 \notin Range(started)
        /\ ~disk.design_dir
        /\ ~disk.themes_dir

\* C9: if the analysis reports is_frontend_project = false, main aborts with
\* an error at stage 3 and none of stages 4 to 12 runs: no theme directory is
\* created, no file is rewritten, no command is executed.
C9_NonFrontendAbortsAtStage3 ==
    (HasAttr(analysis_result, "is_frontend_project")
        /\ ~analysis_result.is_frontend_project) =>
        /\ Failing
        /\ failed_stage = 3
        /\ stage_error = "Exception"
        /\ main_pc = "raised" => escaped = "Exception"
        /\ started = <<1, 2, 3>>
        /\ ~disk.design_dir /\ ~disk.themes_dir
        /\ disk.sources = "orig" /\ disk.main_css = "orig"
        /\ commands = {}

C9_Witness ==
    /\ main_pc = "raised"
    /\ HasAttr(analysis_result, "is_frontend_project")
    /\ ~analysis_result.is_frontend_project
    /\ HasAttr(analysis_result, "eslint_fix_command")
    /\ escaped = "Exception"

\* C10: main called with an empty URL or a URL that is not a string raises
\* ValueError at stage 1, and the clone stage is never started.
C10_BadUrlRaisesValueError ==
    ((github_repo_url = "empty_str" \/ ~UrlIsStr(github_repo_url))
        /\ started /= <<>>) =>
        /\ started = <<1>>
        /\ Failing
        /\ failed_stage = 1
        /\ stage_error = "ValueError"
        /\ main_pc = "raised" => escaped = "ValueError"
        /\ disk = EmptyDisk

C10_Witness ==
    /\ main_pc = "raised"
    /\ github_repo_url = "int_5"
    /\ escaped = "ValueError"
    /\ started = <<1>>

\* The install command of stage 7 did not exit with status zero.
InstallCommandFailed ==
    \/ install_run.kind = "TimeoutExpired"
    \/ install_run.kind = "exit" /\ install_run.code /= 0

\* C11: if the dependency-install command exits non-zero or times out, stage 7
\* raises NpmInstallError, main raises it, stage 8 is never started and neither
\* the build command nor the lint command is ever run.
C11_InstallFailureAbortsBeforeBuild ==
    InstallCommandFailed =>
        /\ Failing
        /\ failed_stage = 7
        /\ stage_error = "NpmInstallError"
        /\ main_pc = "raised" => escaped = "NpmInstallError"
        /\ 8 \notin Range(started)
        /\ commands = {"npm install"}
        /\ disk.deps /= "installed"

C11_Witness ==
    /\ main_pc = "raised"
    /\ install_run.kind = "exit"
    /\ install_run.code = 1
    /\ escaped = "NpmInstallError"
    /\ started = <<1, 2, 3, 4, 5, 6, 7>>

(***************************************************************************)
(* Claims about the entry point                                            *)
(***************************************************************************)
\* The argument validation ran and rejected the command line.
ValidationFailed == ~cli.help /\ cli.parse_ok /\ ArgumentsRejected(cli)

\* C12 as stated: the entry point exits with a non-zero status whenever
\* argument validation fails or an exception escapes main, and exits with
\* status zero only if all 12 stages completed.
C12_ExitZeroOnlyIfAllStagesCompleted ==
    cli.pc = "exited" =>
        /\ (ValidationFailed \/ main_pc = "raised") => cli.exit_status /= 0
        /\ cli.exit_status = 0 => (main_pc = "completed" /\ completed = 1..12)

\* C12, amended: the entry point exits with a non-zero status whenever
\* argument validation fails or an exception escapes main, and exits with
\* status zero only if all 12 stages completed or the help was requested.
C12_ExitZeroOnlyIfCompletedOrHelp ==
    cli.pc = "exited" =>
        /\ (ValidationFailed \/ main_pc = "raised") => cli.exit_status /= 0
        /\ cli.exit_status = 0 =>
             \/ cli.help
             \/ main_pc = "completed" /\ completed = 1..12

C12_Witness ==
    /\ cli.pc = "exited"
    /\ cli.exit_status = 1
    /\ main_pc = "raised"
    /\ failed_stage = 12

(***************************************************************************)
(* Claims about css_generator_agent                                        *)
(***************************************************************************)
GenReturned == gen.pc = "done" /\ gen.outcome = "return"

\* C13: every successful call of css_generator_agent has written exactly 5
\* themes, each as the pair <name>.css, <name>.json; a response with fewer or
\* more than 5 themes is never accepted as success.
C13_ExactlyFiveThemePairs ==
    GenReturned =>
        /\ Len(gen.response) = RequestedThemes
        /\ Len(gen.writes) = 2 * RequestedThemes
        /\ \A i \in 1..RequestedThemes :
             /\ gen.writes[2 * i - 1] = ThemeFile(gen.response[i], "css")
             /\ gen.writes[2 * i] = ThemeFile(gen.response[i], "json")

\* C14: the filenames written by one call are pairwise distinct and distinct
\* from every theme name already in the themes directory and from "original",
\* so the call overwrites no file of the original or of an earlier theme.
C14_WrittenNamesAreNew ==
    GenReturned =>
        /\ \A i, j \in DOMAIN gen.response :
             i /= j => gen.response[i] /= gen.response[j]
        /\ \A i \in DOMAIN gen.writes :
             gen.writes[i].name \notin gen.existing \cup {"original"}

\* C15: with a readable original CSS file and a themes directory that is
\* missing or holds no theme JSON file, the call does not end at the scan or at
\* the preparation of the prompt: the scan yields the empty set, the LLM call
\* is made with the no-existing-themes prompt, and an accepted response leads
\* to the file writes.
C15_NoExistingThemesProceeds ==
    (gen.pc \notin {"idle", "start", "scan"} /\ gen.css_file = "ok"
        /\ gen.dir \in {"missing", "empty"}) =>
        /\ gen.scanned = {}
        /\ gen.pc = "done" =>
             /\ gen.llm_calls = 1
             /\ gen.prompt = "no_existing"
             /\ gen.outcome \in {"return", "ThemeGenerationError", "ThemesDirectoryError"}
             /\ gen.outcome /= "ThemeGenerationError" => gen.write_idx >= 1
        /\ gen.pc = "write" => gen.llm_calls = 1 /\ gen.prompt = "no_existing"

C15_Witness ==
    /\ GenReturned
    /\ gen.dir = "missing"
    /\ gen.scanned = {}
    /\ Len(gen.writes) = 10

C17_WrittenSummaryHasHexColors ==
    (app.pc = "done" /\ app.apply_outcome = "return" /\ app.outcome = "return") =>
        /\ app.written.shape = "object"
        /\ app.written.representative_colors /= <<>>
        /\ \A i \in DOMAIN app.written.representative_colors :
             IsHexColor(app.written.representative_colors[i])

(***************************************************************************)
(* Claims about code_analyze_agent                                         *)
(***************************************************************************)
\* C18: two calls of code_analyze_agent on the same directory with an
\* unchanged package.json return equal FrontendProjectAnalysis fields.
C18_RepeatedAnalysisIsEqual ==
    (ana.pc = "done" /\ ana.results[1].kind = "return"
        /\ ana.results[2].kind = "return") =>
        /\ ana.requests[1] = ana.requests[2]
        /\ ana.results[1] = ana.results[2]

(***************************************************************************)
(* Claims about _run_command                                               *)
(***************************************************************************)
\* The kind of failure of a process outcome: the timeout expired, the
\* executable was not found, or the command ran and exited non-zero.
FailureClass(o) ==
    IF o.cause = "timeout" THEN "timeout"
    ELSE IF o.cause = "not_found" THEN "not_found"
    ELSE IF o.cause = "ran" /\ o.code /= 0 THEN "nonzero"
    ELSE "other"

\* C19: _run_command never raises; a zero exit returns success = true; a
\* non-zero exit, a timeout and an executable that is not found return
\* success = false; and the reports of a timeout, of an executable not found
\* and of an ordinary non-zero exit differ from each other.
C19_FailuresReportedDistinctly ==
    cmd.pc = "done" =>
        /\ \A i \in 1..2 :
             cmd.results[i][1] =
                (cmd.outcomes[i].kind = "exit" /\ cmd.outcomes[i].code = 0)
        /\ (/\ FailureClass(cmd.outcomes[1]) /= "other"
            /\ FailureClass(cmd.outcomes[2]) /= "other"
            /\ FailureClass(cmd.outcomes[1]) /= FailureClass(cmd.outcomes[2]))
             => cmd.results[1] /= cmd.results[2]

(***************************************************************************)
(* Claims about the join of code_act_agent                                 *)
(***************************************************************************)
\* C20: in code_act_agent the merge LLM call and every file write happen only
\* after all submitted per-file tasks have completed, succeeded or failed:
\* no write and no merge call is made while a task is queued or running,
\* whatever the order in which the tasks complete.
C20_WritesOnlyAfterAllTasks ==
    /\ [][(disk_writes' /= disk_writes \/ merge_calls' /= merge_calls) =>
            \A p \in DOMAIN task : task[p] \in {"ok", "failed"}]_vars
    /\ []((act_pc \in {"write", "write_css"} \/ disk_writes /= <<>> \/ merge_calls > 0) =>
            /\ \A p \in DOMAIN task : task[p] \in {"ok", "failed"}
            /\ yielded = DOMAIN task
            /\ Len(extraction_results) = Len(frontend_files))

\* The tasks completed in another order than they were submitted, and the
\* writes and the merge call were made.
C20_Witness ==
    /\ act_pc = "done"
    /\ act_outcome = "return"
    /\ Len(frontend_files) = 3
    /\ extraction_results[1].src = frontend_files[3]
    /\ merge_calls = 1
    /\ Len(disk_writes) = 4

(***************************************************************************)
(* Claims about the worker pool of code_act_agent                          *)
(***************************************************************************)
\* C21: at every moment at most 10 per-file tasks are running, however many
\* files are submitted, and every submitted file has exactly one task: a file
\* the submit loop has passed has one task, a file it has not reached has
\* none, and once the loop has ended every file has one.
C21_AtMostTenRunningOneTaskPerFile ==
    pool.pc /= "idle" =>
        /\ Cardinality(PoolRunning) <= max_workers
        /\ \A i \in 1..pool.n :
             pool.tasks[i] = (IF i <= pool.submitted THEN 1 ELSE 0)
        /\ (pool.pc \in {"collect", "joined"} => pool.submitted = pool.n)

\* More files than workers: max_workers tasks run while another one waits.
C21_Witness ==
    /\ pool.pc = "collect"
    /\ pool.n > max_workers
    /\ Cardinality(PoolRunning) = max_workers
    /\ \E i \in 1..pool.n : pool.state[i] = "queued"

\* C22: in code_act_agent, after a per-file task has failed, every other
\* submitted task still runs to completion (none is cancelled, left queued or
\* left running) before the aggregate exception is raised, and the message of
\* that exception joins the error of every failed task.
C22_FailureDrainsAllTasks ==
    /\ \A p \in DOMAIN task : task[p] \in {"queued", "running", "ok", "failed"}
    /\ (act_pc = "done" /\ FailedTasks /= {}) =>
          /\ act_outcome = "Exception"
          /\ \A p \in DOMAIN task : task[p] \in {"ok", "failed"}
          /\ yielded = DOMAIN task
          /\ Len(errors) = Cardinality(FailedTasks)
          /\ Range(errors) = FailedTasks
          /\ act_error_names = FailedTasks

\* The first submitted file failed; the two files behind it completed.
C22_Witness ==
    /\ act_pc = "done"
    /\ Len(frontend_files) = 3
    /\ FailedTasks = {frontend_files[1]}
    /\ task[frontend_files[2]] = "ok"
    /\ task[frontend_files[3]] = "ok"
    /\ act_outcome = "Exception"

\* C23: in code_act_agent the main stylesheet is read exactly once, before any
\* task is submitted; it is written at most once, only after every task has
\* completed and been collected, never while a task is running and never by a
\* per-file write.
C23_StylesheetReadOnceWrittenOnceAfterJoin ==
    /\ css_reads <= 1
    /\ (DOMAIN task /= {} => css_reads = 1)
    /\ Cardinality(MainCssWrites) <= 1
    /\ \A i \in MainCssWrites : disk_writes[i].by = "merge"
    /\ (MainCssWrites /= {} =>
           /\ Running = {}
           /\ yielded = DOMAIN task)

\* C24: in code_act_agent, when every per-file task has succeeded and the
\* per-file write loop has run through, the paths it wrote are exactly the
\* submitted paths: each submitted path overwritten exactly once, with the
\* result of its own task, and no path written that was not submitted.
C24_WrittenPathsAreSubmittedPaths ==
    (write_idx > Len(extraction_results)) =>
        LET FileWrites == {i \in DOMAIN disk_writes : disk_writes[i].by = "file"}
        IN  /\ Cardinality(FileWrites) = Len(frontend_files)
            /\ {disk_writes[i].path : i \in FileWrites} = Range(frontend_files)
            /\ \A i \in FileWrites :
                 disk_writes[i].path = extraction_results[i].src

(***************************************************************************)
(* Claims about the repair pass of the build-repair loop                   *)
(***************************************************************************)
\* C25: the first successful build ends code_run_build_with_fix at once.  When
\* the operation has returned, the build command has run exactly as many times
\* as attempts were counted (k, between 1 and 20), no extraction call, fix call
\* or LLM call was made after the latest build, and from then on no step
\* changes anything (no further build, extraction, fix or file write).
C25_SuccessfulBuildEndsAtOnce ==
    /\ [](build_outcome = "return" =>
            /\ build_pc = "done"
            /\ build_runs = iteration
            /\ iteration \in 1..max_iterations
            /\ last_extract = "none"
            /\ fixed_in_iter = 0
            /\ fix_llm_calls = 0
            /\ last_fix = "none")
    /\ [][build_outcome = "return" => UNCHANGED bvars]_vars

\* The build succeeds on the third attempt, after a repair changed a file.
C25_Witness ==
    /\ build_outcome = "return"
    /\ iteration = 3
    /\ build_runs = 3
    /\ \E p \in ErrorPaths : files[p] = "fixed"

\* The lint-autofix command configured by the frontend_analysis argument.
LintConfigured ==
    /\ HasAttr(frontend_analysis, "eslint_fix_command")
    /\ Truthy(frontend_analysis.eslint_fix_command)

\* C26: a call of code_run_build_with_fix that passes the directory and
\* build_command checks runs a configured lint-autofix command exactly once,
\* before the first build attempt, whether or not that command succeeds; when
\* none is configured the lint step is skipped; in both cases the first build
\* attempt runs (the operation does not end without a build).
C26_LintOnceThenFirstBuild ==
    (build_pc \notin {"idle", "start"} /\ dir_exists
        /\ Truthy(frontend_analysis.build_command)) =>
        /\ (build_runs >= 1 => eslint_runs = (IF LintConfigured THEN 1 ELSE 0))
        /\ (build_runs = 0 => eslint_runs <= 1)
        /\ (build_pc = "done" => build_runs >= 1)

\* C27: a pass of the fix loop over a path that does not exist under the
\* project root is a no-op of _fix_error_file: it returns normally (nothing is
\* raised, the operation does not end), makes no LLM call, creates and writes
\* no file, and the loop goes on with the next extracted path (or, after the
\* last path, back to the loop condition).
C27_MissingFileIsSkipped ==
    [][(build_pc = "fix" /\ ~FileExists(files, error_files[fix_idx])) =>
          /\ last_fix' = "skipped"
          /\ files' = files
          /\ fix_llm_calls' = fix_llm_calls
          /\ build_outcome' = build_outcome
          /\ error_files' = error_files
          /\ fix_idx' = fix_idx + 1
          /\ build_pc' = (IF fix_idx < Len(error_files) THEN "fix" ELSE "while")]_vars

\* The missing path was first in the list; the pass is at the second path.
C27_Witness ==
    /\ build_pc = "fix"
    /\ last_fix = "skipped"
    /\ fix_idx = 2
    /\ ~FileExists(files, error_files[1])
    /\ FileExists(files, error_files[2])
    /\ fix_llm_calls = 0

\* C28: in a repair iteration, when the fix of one extracted file fails in the
\* LLM call or in parsing its response, that file and every other file are
\* left unchanged by the failing call, the pass ends there (the files behind
\* it in the list are not attempted: the calls made equal the position of the
\* failed file), the operation is not ended, and if iterations remain the next
\* step is the next build attempt.
C28_FixFailureEndsThePass ==
    /\ [][(build_pc = "fix" /\ last_fix' = "llm_failed") =>
             /\ files' = files
             /\ build_pc' = "while"
             /\ build_outcome' = "none"
             /\ iteration' = iteration
             /\ fix_idx' = fix_idx]_vars
    /\ []((build_pc = "while" /\ last_fix = "llm_failed") =>
             /\ fixed_in_iter = fix_idx
             /\ fix_idx <= Len(error_files)
             /\ build_outcome = "none")
    /\ [][(build_pc = "while" /\ last_fix = "llm_failed"
              /\ iteration < max_iterations) =>
             /\ build_runs' = build_runs + 1
             /\ iteration' = iteration + 1]_vars

\* The fix of the first of two extracted files failed; iterations remain.
C28_Witness ==
    /\ build_pc = "while"
    /\ last_fix = "llm_failed"
    /\ fix_idx = 1
    /\ Len(error_files) = 2
    /\ FileExists(files, error_files[2])
    /\ iteration < max_iterations

\* C29: in a repair iteration every path of the extracted list is attempted
\* before the next build attempt starts: when the pass over a non-empty list
\* is over and the loop is back at its condition, _fix_error_file has been
\* called once for each path of the list, whether or not one of the calls
\* failed.
C29_EveryExtractedPathAttempted ==
    (build_pc = "while" /\ last_extract = "list") =>
        fixed_in_iter = Len(error_files)

(***************************************************************************)
(* Claims about _extract_error_files                                       *)
(***************************************************************************)
\* The response content is a JSON object whose only member is error_files, an
\* array of strings.
MatchesExtractionSchema(c) ==
    /\ c.kind = "json"
    /\ c.doc.t = "object"
    /\ DOMAIN c.doc.members = {"error_files"}
    /\ c.doc.members.error_files.t = "array"
    /\ \A i \in DOMAIN c.doc.members.error_files.items :
         c.doc.members.error_files.items[i].t = "string"

\* C30: _extract_error_files returns a list (possibly empty) only when the
\* response content is non-empty, parses as JSON and matches the schema
\* {error_files: [string]} with no extra member, and the list is then the
\* error_files array; for an empty, unparsable or schema-violating content,
\* and when the call itself fails, it raises and returns no list.
C30_ListOnlyForSchemaContent ==
    xtr.pc = "done" =>
        /\ xtr.result.kind \in {"list", "raised"}
        /\ (xtr.result.kind = "list" <=> MatchesExtractionSchema(xtr.content))
        /\ (xtr.result.kind = "list" =>
              /\ Len(xtr.result.value) = Len(xtr.content.doc.members.error_files.items)
              /\ \A i \in DOMAIN xtr.result.value :
                   xtr.result.value[i] = xtr.content.doc.members.error_files.items[i].v)
        /\ (xtr.result.kind = "raised" => xtr.result.error = "Exception")

\* An empty content raised.
C30_Witness ==
    /\ xtr.pc = "done"
    /\ xtr.content = [kind |-> "empty"]
    /\ xtr.result = ExtractRaises

(***************************************************************************)
(* Claims about the ends and the counters of the build-repair loop         *)
(***************************************************************************)
\* A call of _fix_error_file that raised.
FixRaised(o) == o \in {"read_failed", "llm_failed", "write_failed"}

\* C31: once the build-repair loop has been entered (a build has run),
\* code_run_build_with_fix ends only by returning after a successful build or
\* by raising BuildMaxIterationsError; a failure of the extraction call or of
\* a file fix does not end the operation: it only ends the current iteration
\* (the loop is back at its condition with the same iteration count).
C31_LoopEndsByReturnOrMaxIterations ==
    /\ []((build_pc = "done" /\ build_runs >= 1) =>
             build_outcome \in {"return", "BuildMaxIterationsError"})
    /\ []((build_pc \in {"while", "extract", "fix"}) => build_outcome = "none")
    /\ [][((build_pc = "extract" /\ last_extract' = "raised")
              \/ (build_pc = "fix" /\ FixRaised(last_fix'))) =>
             /\ build_pc' = "while"
             /\ build_outcome' = "none"
             /\ iteration' = iteration]_vars

\* The extraction failed in one iteration, a fix failed in a later one, and
\* the operation ended with BuildMaxIterationsError.
C31_Witness ==
    /\ build_pc = "done"
    /\ build_outcome = "BuildMaxIterationsError"
    /\ build_runs = max_iterations
    /\ last_extract = "list"
    /\ FixRaised(last_fix)

(***************************************************************************)
(* Claims about css_analyze_agent                                          *)
(***************************************************************************)
\* C32: css_analyze_agent returns a main_css_path only if it is the relative
\* path of one of the CSS files it scanned; otherwise it raises and stage 6
\* is not reached.  At each later use of the path (the read and the write of
\* stage 6, the copy of stage 9) the file exists.
C32_MainCssPathIsScannedFile ==
    css.pc /= "idle" =>
        /\ (css.pc \in {"stage6", "stage7", "stage9"} \/ css.uses /= {}) =>
              /\ css.main_css_path \in css.scanned
              /\ css.scanned \subseteq CssPaths
        /\ \A u \in css.uses : u.exists
        /\ (css.main_css_path = "" => css.uses = {})

\* Two files were scanned, one was answered, and the copy of stage 9 was made.
C32_Witness ==
    /\ css.pc = "done"
    /\ css.outcome = "copied"
    /\ css.scanned = CssPaths
    /\ [op |-> "copy", exists |-> TRUE] \in css.uses

\* C33: every fix pass of the build-repair loop is followed by a build
\* attempt.  When BuildMaxIterationsError is raised, the files on disk are
\* exactly those the last (20th) build attempt ran against: the loop has
\* modified no file after that build.
C33_NoFixAfterLastBuild ==
    (build_pc = "done" /\ build_outcome = "BuildMaxIterationsError") =>
        /\ build_runs = max_iterations
        /\ ~modified_since_build

\* C34: in every reachable state of the build-repair loop the iteration
\* counter is between 0 and 20 and equals the number of build-command runs;
\* the extraction call is made exactly once after each failed build (pending
\* right after it, made before the loop goes on) and never after a successful
\* one; file fixes are made only after an extraction of the same iteration
\* returned a non-empty list.
C34_CountersAndOrderOfCalls ==
    /\ [](/\ iteration \in 0..max_iterations
          /\ iteration = build_runs
          /\ (build_outcome = "return" => last_extract = "none")
          /\ (build_pc = "extract" => last_extract = "none")
          /\ ((build_pc = "while" /\ iteration >= 1) => last_extract /= "none")
          /\ ((build_pc = "fix" \/ fixed_in_iter > 0) =>
                 (last_extract = "list" /\ error_files /= <<>>)))
    /\ [][(build_runs' = build_runs + 1 /\ build_outcome' = "none") =>
             build_pc' = "extract"]_vars
    /\ [][build_pc = "extract" =>
             (last_extract' /= "none" /\ build_pc' /= "extract"
              /\ build_runs' = build_runs)]_vars

\* The second iteration is fixing the files its extraction named.
C34_Witness ==
    /\ build_pc = "fix"
    /\ iteration = 2
    /\ build_runs = 2
    /\ last_extract = "list"
    /\ fixed_in_iter = 1
    /\ Len(error_files) = 2

(***************************************************************************)
(* Claims about stage 3 of MainWorkflow.main                               *)
(***************************************************************************)
\* C35: when the analyzer has returned a result with is_frontend_project =
\* true, stage 3 does not fail, whatever the other analysis fields are: the
\* stage aborts the run only when the analyzer raises or reports a
\* non-frontend project.
C35_FrontendAnalysisPassesStage3 ==
    (/\ HasAttr(analysis_result, "is_frontend_project")
     /\ analysis_result.is_frontend_project) =>
        /\ failed_stage /= 3
        /\ (main_pc \in {"handler", "raised"} => 3 \in completed)

(***************************************************************************)
(* Claims about the writes of code_act_agent                               *)
(***************************************************************************)
\* C36: code_act_agent updates the source files and the main stylesheet
\* together.  In every final state of a call either nothing was written, or
\* one per-file write was made for every submitted file and the merged
\* stylesheet was written; no final state has per-file writes without the
\* write of the merged stylesheet.
C36_SourcesAndStylesheetTogether ==
    act_pc = "done" =>
        LET FileWrites == {i \in DOMAIN disk_writes : disk_writes[i].by = "file"}
            MergeWrites == {i \in DOMAIN disk_writes : disk_writes[i].by = "merge"}
        IN  \/ disk_writes = <<>>
            \/ /\ Cardinality(FileWrites) = Len(frontend_files)
               /\ Cardinality(MergeWrites) = 1

(***************************************************************************)
(* Claims about the files a repair iteration touches                       *)
(***************************************************************************)
\* Path(directory_path) / p stays inside the project directory.
UnderProjectRoot(p) == p \notin EscapingPaths

\* C37: a step of the build-repair loop changes the content of a file only
\* during the fix pass, and only if the file is named in the extracted list of
\* that iteration, existed before the step and lies under the project root;
\* no step creates or deletes a file.
C37_OnlyListedProjectFilesChange ==
    [][\A p \in ErrorPaths :
          /\ FileExists(files', p) = FileExists(files, p)
          /\ (files'[p] /= files[p] =>
                /\ build_pc = "fix"
                /\ p \in Range(error_files)
                /\ FileExists(files, p)
                /\ UnderProjectRoot(p))]_vars

(***************************************************************************)
(* Claims about TwitterService                                             *)
(***************************************************************************)
\* C38: the pagination loops of get_following, get_user_last_tweets and
\* tweet_advanced_search terminate for every sequence of API responses and
\* every max_results: the method eventually returns, each pass of the loop
\* either leaves the loop or strictly increases total_fetched, and at most
\* max_results pages are requested (none when max_results is not positive).
C38_PaginationTerminates ==
    /\ <>(tw.pc = "done")
    /\ [](tw.pages <= (IF tw.max_results > 0 THEN tw.max_results ELSE 0))
    /\ [][(tw.pc = "loop" /\ tw'.pages = tw.pages + 1) =>
             (tw'.pc /= "loop" \/ tw'.total_fetched > tw.total_fetched)]_vars

\* max_results pages of one item each were requested before the return.
C38_Witness ==
    /\ tw.pc = "done"
    /\ tw.max_results = MaxResults
    /\ tw.pages = MaxResults
    /\ tw.total_fetched = MaxResults
    /\ tw.result.kind = "response"

\* C39: the result of tweet_advanced_search has has_next_page = true (with a
\* next_cursor) only if the last page fetched reported a further page; when
\* the last fetched page reported none, the result has has_next_page = false
\* and no next_cursor, also after two or more pages.
C39_NextPageReflectsLastPage ==
    (/\ tw.pc = "done"
     /\ tw.method = "tweet_advanced_search"
     /\ tw.result.kind = "response") =>
        /\ (tw.result.has_next_page =>
              (tw.last.seen /\ tw.last.has_next_page))
        /\ ((tw.last.seen /\ ~tw.last.has_next_page) =>
              (~tw.result.has_next_page /\ tw.result.next_cursor = ""))

====
